---------------------------- MODULE Spec2Model ----------------------------
(***************************************************************************)
(* Peer reputation / catchup coordination subsystem of teranode:           *)
(*   - GenerationalCache (stores/blockchain/sql)                           *)
(*   - PeerRegistry, its snapshot store and reputation score (services/p2p)*)
(*   - catchup peer selection and metric reporting (services/blockvalidation)*)
(* Each subsystem has its own specification over the shared variables.     *)
(***************************************************************************)
EXTENDS Integers, Sequences, FiniteSets, TLC

VARIABLES
    \* ---- GenerationalCache ------------------------------------------
    generation,   \* GenerationalCache.generation (atomic.Uint64)
    stopped,      \* GenerationalCache.stopped (atomic.Bool)
    items,        \* the wrapped ttlcache: key -> [value, ttl, expiresAt]
    sweeper,      \* the ttlcache cleanup goroutine: "running" or "halted"
    cacheStops,   \* number of calls made to the wrapped cache's Stop()
    now,          \* wall clock (time.Now()), in abstract ticks
    qry,          \* per goroutine: its CacheQuery and its position in Get/Set
    del,          \* per goroutine: its position in DeleteAll
    stp,          \* per goroutine: its position in Stop
    hist,         \* history of the run (bookkeeping, read by no operation)
    \* ---- PeerRegistry and its snapshot file ---------------------------
    peers,        \* PeerRegistry.peers: peer id -> PeerInfo
    file,         \* teranode_peer_registry.json in the cache directory
    lastErr,      \* the last Save/Load call and what it returned
    \* ---- block validation: metric reporting and peer selection --------
    catchup,      \* the running catchup: [pc, peer, blocks]
    localMetrics, \* u.peerMetrics: peer id -> [successes, failures, malicious]
    reports,      \* history: per peer, reports made and attempt reports lost
    selection,    \* what selectBestPeersForCatchup last returned
    recorders,    \* per goroutine recording into the registry: its position
    overrides,    \* history: per peer, the score last stored by hand and
                  \* whether an outcome was recorded since
    \* ---- SavePeerRegistryCache step by step -----------------------------
    savers,       \* per goroutine in SavePeerRegistryCache: its position
    tempFiles,    \* the temp files of the cache directory: name -> content
    \* ---- the gRPC server of the P2P service ----------------------------
    server,       \* whether s.peerRegistry is set, and the last response
    \* ---- LoadPeerRegistryCache step by step -----------------------------
    loader,       \* the goroutine in LoadPeerRegistryCache: its position
    reads,        \* what GetPeer / GetAllPeers last returned to a caller
    \* ---- WaitForBlockAssemblyReady --------------------------------------
    wait          \* the call: its arguments, its position and its result

cacheVars == <<generation, stopped, items, sweeper, cacheStops, qry, del, stp, hist>>

regVars == <<peers, file, lastErr>>

valVars == <<catchup, localMetrics, reports, selection, recorders, overrides>>

saveVars == <<savers, tempFiles>>

loadVars == <<loader, reads>>

vars == <<generation, stopped, items, sweeper, cacheStops, now, qry, del, stp, hist,
          peers, file, lastErr, catchup, localMetrics, reports, selection,
          recorders, overrides, savers, tempFiles, server, loadVars, wait>>

(***************************************************************************)
(* Finite maps (Go maps): functions whose DOMAIN is the set of keys held.  *)
(***************************************************************************)
EmptyMap == << >>

MapSet(m, k, v) == [x \in (DOMAIN m) \cup {k} |-> IF x = k THEN v ELSE m[x]]

MapDel(m, S) == [x \in (DOMAIN m) \ S |-> m[x]]

(***************************************************************************)
(* Bounds of the model.                                                    *)
(***************************************************************************)
MaxTime == 3        \* the clock runs 0..MaxTime

MaxTTL == 2         \* Set is called with ttl in 0..MaxTTL

MaxRounds == 1      \* queries begun per querying goroutine

MaxDeletes == 2     \* DeleteAll calls per invalidating goroutine

MaxStops == 2       \* Stop calls per stopping goroutine

Keys == {"k1", "k2"}

Queriers == {"q1", "q2"}

Deleters == {"d1"}

Stoppers == {"s1", "s2"}

\* The values the registry and validation variables hold before use.
NoFile == [kind |-> "missing", version |-> "", peers |-> EmptyMap]

NoCall == [op |-> "none", err |-> "none"]

\* No report was made yet (history).
NoReport == [op |-> "none", call |-> "none"]

\* Neither isPeerMalicious nor isPeerBad was asked yet.
NoVerdict == [op |-> "none", peer |-> "", answer |-> FALSE]

\* client: u.p2pClient is set; local: u.peerMetrics is set; traced, last:
\* whether the last report is remembered, and that report (history);
\* verdict: what isPeerMalicious or isPeerBad last returned, and for whom.
NoCatchup ==
    [client |-> TRUE, local |-> TRUE, pc |-> "idle", peer |-> "", blocks |-> 0,
     flagged |-> FALSE, traced |-> FALSE, last |-> NoReport,
     verdict |-> NoVerdict]

NoSelection ==
    [ran |-> "none", target |-> 0, resp |-> << >>, list |-> << >>, err |-> "nil"]

(***************************************************************************)
(* The wrapped ttlcache, as GenerationalCache uses it.                     *)
(***************************************************************************)
\* An item with ttl <= 0 never expires; otherwise it is expired once the
\* clock has passed expiresAt.
IsExpired(e, t) == e.ttl > 0 /\ e.expiresAt < t

\* cache.Get(key): the value held, as a sequence of length 1, or <<>> (nil).
CacheGet(m, k, t) ==
    IF k \in DOMAIN m /\ ~IsExpired(m[k], t) THEN <<m[k].value>> ELSE <<>>

\* A Get that touches the item it hits (ttlcache's default).
CacheAfterGetTouching(m, k, t) ==
    IF k \in DOMAIN m /\ ~IsExpired(m[k], t) /\ m[k].ttl > 0
    THEN MapSet(m, k, [m[k] EXCEPT !.expiresAt = t + m[k].ttl])
    ELSE m

\* The cache content after Get(key): the cache is built
\* WithDisableTouchOnHit, so a hit does not move the item's expiry.
CacheAfterGet(m, k, t) == m

\* cache.Set(key, value, ttl) at time t.
CacheSet(m, k, v, ttl, t) ==
    MapSet(m, k, [value |-> v, ttl |-> ttl,
                  expiresAt |-> IF ttl > 0 THEN t + ttl ELSE 0])

\* cache.DeleteAll()
CacheDeleteAll(m) == EmptyMap

\* One pass of the cleanup goroutine started by cache.Start().
CacheSweep(m, t) == MapDel(m, {k \in DOMAIN m : IsExpired(m[k], t)})

(***************************************************************************)
(* GenerationalCache                                                       *)
(***************************************************************************)
QueryId(q) == <<q, qry[q].round>>

\* NewGenerationalCache: an empty cache at generation 0, its sweeper started.
CacheNew ==
    /\ generation = 0
    /\ stopped = FALSE
    /\ items = EmptyMap
    /\ sweeper = "running"
    /\ cacheStops = 0
    /\ qry = [q \in Queriers |->
                [pc |-> "idle", round |-> 0, key |-> "k1", gen |-> 0,
                 res |-> "none", got |-> <<>>,
                 overtaken |-> FALSE, late |-> FALSE]]
    /\ del = [d \in Deleters |-> [pc |-> "idle", calls |-> 0, pre |-> {}]]
    /\ stp = [s \in Stoppers |-> [pc |-> "idle", calls |-> 0]]
    /\ hist = [begun |-> {}, invalidated |-> {}, deletesDone |-> 0,
               lastSet |-> EmptyMap]

\* NewPeerRegistry: no peer; no snapshot file written yet.
\* No response was returned yet.
NoResponse ==
    [rpc |-> "none", peerId |-> "", ok |-> FALSE, err |-> "none", peers |-> << >>]

\* The gRPC server with its registry set, before any call.
NoServer == [registry |-> TRUE, resp |-> NoResponse]

\* The goroutine before its call of LoadPeerRegistryCache. wlock: it holds
\* pr.mu for writing; cache: cache.Peers as unmarshalled; todo: the entries
\* the range loop has not visited; half: the entry whose counters are
\* restored and whose URL and height are not yet; base (bookkeeping): the
\* registry as it was when pr.mu.Lock() returned.
NoLoader ==
    [pc |-> "idle", wlock |-> FALSE, cache |-> EmptyMap, todo |-> {},
     half |-> "", base |-> EmptyMap, err |-> "none"]

\* Neither GetPeer nor GetAllPeers was called.
NoRead == [op |-> "none", peer |-> "", found |-> FALSE, peers |-> EmptyMap]

\* WaitForBlockAssemblyReady was not called.
NoWait == [pc |-> "none"]

\* No Save is running and the cache directory holds no temp file.
NoSaves ==
    /\ savers = EmptyMap
    /\ tempFiles = EmptyMap

RegistryNew ==
    /\ peers = EmptyMap
    /\ file = NoFile
    /\ lastErr = NoCall
    /\ NoSaves
    /\ server = NoServer
    /\ loader = NoLoader
    /\ reads = NoRead
    /\ wait = NoWait

\* Block validation before any catchup and any selection; no goroutine
\* recording into the registry on its own.
ValidationIdle ==
    /\ catchup = NoCatchup
    /\ localMetrics = EmptyMap
    /\ reports = EmptyMap
    /\ selection = NoSelection
    /\ recorders = EmptyMap
    /\ overrides = EmptyMap

InitCache == CacheNew /\ now = 0 /\ RegistryNew /\ ValidationIdle

\* gc.BeginQuery(key): a new CacheQuery capturing the current generation.
\* qry[q] fields: pc (idle: no query yet; began; writing: inside Set, past
\* the comparison; done: Set has returned), key, gen (captured), res (what
\* Set returned), got (<<>>: no Get yet, else <<result of the last Get>>).
\* overtaken: a DeleteAll has returned since BeginQuery; late: overtaken
\* held when Set was invoked.
BeginQuery(q, k) ==
    /\ qry[q].pc \in {"idle", "began", "done"}
    /\ qry[q].round < MaxRounds
    /\ qry' = [qry EXCEPT ![q] =
                 [pc |-> "began", round |-> qry[q].round + 1, key |-> k,
                  gen |-> generation, res |-> "none", got |-> <<>>,
                  overtaken |-> FALSE, late |-> FALSE]]
    /\ hist' = [hist EXCEPT !.begun = @ \cup {<<q, qry[q].round + 1>>}]
    /\ UNCHANGED <<generation, stopped, items, sweeper, cacheStops, now, del, stp>>
    /\ UNCHANGED <<regVars, valVars, saveVars, server, loadVars, wait>>

\* cq.Get(), on a query object at any time outside Set.
Get(q) ==
    /\ qry[q].pc \in {"began", "done"}
    /\ qry' = [qry EXCEPT ![q].got = <<CacheGet(items, qry[q].key, now)>>]
    /\ items' = CacheAfterGet(items, qry[q].key, now)
    /\ UNCHANGED <<generation, stopped, sweeper, cacheStops, now, del, stp, hist>>
    /\ UNCHANGED <<regVars, valVars, saveVars, server, loadVars, wait>>

\* The comparison of Set that loses the generation check.
SetChecksOutGenerationIgnored(captured, current) == TRUE

\* The comparison of Set with its sense inverted.
SetChecksOutInverted(captured, current) == captured # current

\* cq.Set, first step: compare the captured generation with the current one.
SetChecksOut(captured, current) == captured = current

SetCheck(q) ==
    /\ qry[q].pc = "began"
    /\ IF SetChecksOut(qry[q].gen, generation)
       THEN qry' = [qry EXCEPT ![q].pc = "writing",
                               ![q].late = qry[q].overtaken]
       ELSE qry' = [qry EXCEPT ![q].pc = "done", ![q].res = "false",
                               ![q].late = qry[q].overtaken]
    /\ UNCHANGED <<generation, stopped, items, sweeper, cacheStops, now, del, stp, hist>>
    /\ UNCHANGED <<regVars, valVars, saveVars, server, loadVars, wait>>

\* cq.Set, second step: write the entry and return true.
SetWrite(q, ttl) ==
    /\ qry[q].pc = "writing"
    /\ items' = CacheSet(items, qry[q].key, QueryId(q), ttl, now)
    /\ qry' = [qry EXCEPT ![q].pc = "done", ![q].res = "true"]
    /\ hist' = [hist EXCEPT !.lastSet =
                  MapSet(@, qry[q].key, [value |-> QueryId(q), at |-> now, ttl |-> ttl])]
    /\ UNCHANGED <<generation, stopped, sweeper, cacheStops, now, del, stp>>
    /\ UNCHANGED <<regVars, valVars, saveVars, server, loadVars, wait>>

\* gc.DeleteAll, first step: clear the wrapped cache.
DeleteAllClear(d) ==
    /\ del[d].pc = "idle"
    /\ del[d].calls < MaxDeletes
    /\ items' = CacheDeleteAll(items)
    /\ del' = [del EXCEPT ![d] = [pc |-> "cleared", calls |-> del[d].calls + 1,
                                  pre |-> hist.begun]]
    /\ hist' = [hist EXCEPT !.lastSet = EmptyMap]
    /\ UNCHANGED <<generation, stopped, sweeper, cacheStops, now, qry, stp>>
    /\ UNCHANGED <<regVars, valVars, saveVars, server, loadVars, wait>>

\* A DeleteAll that forgets to advance the generation.
GenerationAfterDeleteAllStuck(g) == g

\* gc.generation.Add(1)
GenerationAfterDeleteAll(g) == g + 1

\* gc.DeleteAll, second step: increment the generation and return.
DeleteAllIncrement(d) ==
    /\ del[d].pc = "cleared"
    /\ generation' = GenerationAfterDeleteAll(generation)
    /\ del' = [del EXCEPT ![d].pc = "idle"]
    /\ qry' = [q \in Queriers |->
                 IF qry[q].pc # "idle" THEN [qry[q] EXCEPT !.overtaken = TRUE]
                 ELSE qry[q]]
    /\ hist' = [hist EXCEPT !.deletesDone = @ + 1,
                            !.invalidated = @ \cup del[d].pre]
    /\ UNCHANGED <<stopped, items, sweeper, cacheStops, now, stp>>
    /\ UNCHANGED <<regVars, valVars, saveVars, server, loadVars, wait>>

\* A Stop that calls the wrapped Stop() whatever the flag says.
StopWinsAlways(flag) == TRUE

\* gc.stopped.CompareAndSwap(false, true) succeeds iff the flag was false.
StopWins(flag) == flag = FALSE

\* gc.Stop, first step: the compare-and-swap on stopped.
StopCAS(s) ==
    /\ stp[s].pc = "idle"
    /\ stp[s].calls < MaxStops
    /\ stopped' = TRUE
    /\ stp' = [stp EXCEPT ![s] = [pc |-> IF StopWins(stopped) THEN "won" ELSE "idle",
                                  calls |-> stp[s].calls + 1]]
    /\ UNCHANGED <<generation, items, sweeper, cacheStops, now, qry, del, hist>>
    /\ UNCHANGED <<regVars, valVars, saveVars, server, loadVars, wait>>

\* gc.Stop, second step (only for the winner of the CAS): gc.cache.Stop().
StopCache(s) ==
    /\ stp[s].pc = "won"
    /\ sweeper' = "halted"
    /\ cacheStops' = cacheStops + 1
    /\ stp' = [stp EXCEPT ![s].pc = "idle"]
    /\ UNCHANGED <<generation, stopped, items, now, qry, del, hist>>
    /\ UNCHANGED <<regVars, valVars, saveVars, server, loadVars, wait>>

\* The cleanup goroutine (go gc.cache.Start()) evicts expired items.
Sweep ==
    /\ sweeper = "running"
    /\ \E k \in DOMAIN items : IsExpired(items[k], now)
    /\ items' = CacheSweep(items, now)
    /\ UNCHANGED <<generation, stopped, sweeper, cacheStops, now, qry, del, stp, hist>>
    /\ UNCHANGED <<regVars, valVars, saveVars, server, loadVars, wait>>

\* Time passes.
Tick ==
    /\ now < MaxTime
    /\ now' = now + 1
    /\ UNCHANGED <<cacheVars, regVars, valVars, saveVars, server, loadVars, wait>>

\* The generation race: queries, writes and invalidations while the clock
\* stands still (entries are written with ttl 0, which never expires).
NextCache ==
    \/ \E q \in Queriers, k \in Keys : BeginQuery(q, k)
    \/ \E q \in Queriers : Get(q)
    \/ \E q \in Queriers : SetCheck(q)
    \/ \E q \in Queriers : SetWrite(q, 0)
    \/ \E d \in Deleters : DeleteAllClear(d)
    \/ \E d \in Deleters : DeleteAllIncrement(d)

SpecCache == InitCache /\ [][NextCache]_vars

\* Expiry: one querying goroutine, the invalidator, the sweeper and the clock.
NextCacheTTL ==
    \/ \E k \in Keys : BeginQuery("q1", k)
    \/ Get("q1")
    \/ SetCheck("q1")
    \/ \E ttl \in 0..MaxTTL : SetWrite("q1", ttl)
    \/ \E d \in Deleters : DeleteAllClear(d)
    \/ \E d \in Deleters : DeleteAllIncrement(d)
    \/ Sweep
    \/ Tick

SpecCacheTTL == InitCache /\ [][NextCacheTTL]_vars

\* Stop, called any number of times among the other operations.
NextCacheStop ==
    \/ BeginQuery("q1", "k1")
    \/ Get("q1")
    \/ SetCheck("q1")
    \/ \E ttl \in 0..MaxTTL : SetWrite("q1", ttl)
    \/ \E d \in Deleters : DeleteAllClear(d)
    \/ \E d \in Deleters : DeleteAllIncrement(d)
    \/ \E s \in Stoppers : StopCAS(s)
    \/ \E s \in Stoppers : StopCache(s)
    \/ Sweep
    \/ Tick

SpecCacheStop == InitCache /\ [][NextCacheStop]_vars

(***************************************************************************)
(* Claims about the GenerationalCache                                      *)
(***************************************************************************)

\* C1: once a DeleteAll has returned, the cache holds no entry written by a
\* query whose BeginQuery preceded that DeleteAll (hist.invalidated collects
\* exactly those queries when a DeleteAll returns).
C1_NoEntryFromInvalidatedQuery ==
    \A k \in DOMAIN items : items[k].value \notin hist.invalidated

\* C2: a Set invoked after a DeleteAll returned since its BeginQuery returns
\* false, and Set returns true exactly for the queries no DeleteAll has
\* overtaken; a rejected Set leaves the cache contents unchanged and a Get
\* finds no value bound by that query.
C2_RejectedState ==
    \A q \in Queriers :
        /\ qry[q].res # "none" => (qry[q].res = "true" <=> ~qry[q].late)
        /\ qry[q].res = "false" =>
              /\ \A k \in DOMAIN items : items[k].value # QueryId(q)
              /\ CacheGet(items, qry[q].key, now) # <<QueryId(q)>>

C2_RejectedSetIsNoOp ==
    \A q \in Queriers :
        (qry[q].res = "none" /\ qry'[q].res = "false") => items' = items

C2_StaleSetRejected == [](C2_RejectedState) /\ [][C2_RejectedSetIsNoOp]_vars

C2_Witness ==
    /\ hist.deletesDone >= 2
    /\ qry["q1"].res = "false" /\ qry["q1"].late
    /\ qry["q2"].res = "true" /\ qry["q2"].key = qry["q1"].key
    /\ qry["q1"].got = << <<QueryId("q2")>> >>

\* C3: a Set with no DeleteAll between its BeginQuery and its invocation
\* returns true, and while the clock is before t + ttl (and no DeleteAll or
\* later accepted Set on the key intervened) Get returns the value written.
C3_FreshSetAccepted ==
    /\ \A q \in Queriers :
          (qry[q].res # "none" /\ ~qry[q].late) => qry[q].res = "true"
    /\ \A k \in DOMAIN hist.lastSet :
          now < hist.lastSet[k].at + hist.lastSet[k].ttl =>
              CacheGet(items, k, now) = <<hist.lastSet[k].value>>

C3_Witness ==
    /\ qry["q1"].res = "true" /\ ~qry["q1"].late
    /\ qry["q1"].key \in DOMAIN hist.lastSet
    /\ hist.lastSet[qry["q1"].key].value = QueryId("q1")
    /\ hist.lastSet[qry["q1"].key].at < now
    /\ now < hist.lastSet[qry["q1"].key].at + hist.lastSet[qry["q1"].key].ttl
    /\ qry["q1"].got = << <<QueryId("q1")>> >>

C4_MissState ==
    \A k \in DOMAIN hist.lastSet :
        (hist.lastSet[k].ttl > 0 /\ now > hist.lastSet[k].at + hist.lastSet[k].ttl)
            => CacheGet(items, k, now) = <<>>

C4_GetIsReadOnly == \A q \in Queriers : Get(q) => items' = items

C5_StopOnce ==
    /\ cacheStops <= 1
    /\ (cacheStops = 1) <=> (sweeper = "halted")
    /\ cacheStops = 1 => stopped
    /\ Cardinality({s \in Stoppers : stp[s].pc = "won"}) + cacheStops <= 1
    /\ ((\E s \in Stoppers : stp[s].calls > 0) /\ (\A s \in Stoppers : stp[s].pc = "idle"))
          => cacheStops = 1

C5_Witness ==
    /\ \A s \in Stoppers : stp[s].calls = MaxStops /\ stp[s].pc = "idle"
    /\ cacheStops = 1
    /\ hist.deletesDone > 0
    /\ qry["q1"].res = "true"


(***************************************************************************)
(* PeerRegistry: the per-peer record and the reputation score.             *)
(* A timestamp is a clock reading, 0 being the zero time.Time ("never").   *)
(* A score is held in thousandths of a point; a duration in microseconds.  *)
(***************************************************************************)
MaxCount == 2       \* attempts, successes and failures are recorded up to MaxCount

MaxMalicious == 4   \* malicious incidents are recorded up to MaxMalicious

ScorePoint == 1000  \* one reputation point, in the unit scores are held in

Millisecond == 1000 \* time.Millisecond, in the unit durations are held in

BaseScore == 50          \* baseScore

SuccessWeightPct == 60   \* successWeight = 0.6

MaliciousPenalty == 20   \* maliciousPenalty

MaliciousCap == 50       \* maliciousCap

RecencyBonus == 10       \* recencyBonus

RecencyWindow == 1       \* recencyWindow (one hour), in clock ticks

PeerRegistryCacheVersion == "1.0"

\* Peer ids. peer.ID holds the raw multihash bytes: those of "pA" and "pB"
\* happen to be valid UTF-8, those of "pX" are not.
PeerIds == {"pA", "pB", "pX"}

BinaryIds == {"pX"}

DurationsMs == {100}

\* A fresh record, as AddPeer creates it for a peer that connected.
NewPeerInfo ==
    [Height |-> 0, BlockHash |-> "", DataHubURL |-> "",
     IsHealthy |-> TRUE, IsBanned |-> FALSE, IsConnected |-> TRUE,
     CatchupAttempts |-> 0, CatchupSuccesses |-> 0, CatchupFailures |-> 0,
     CatchupLastAttempt |-> 0, CatchupLastSuccess |-> 0, CatchupLastFailure |-> 0,
     CatchupReputationScore |-> BaseScore * ScorePoint,
     CatchupMaliciousCount |-> 0, CatchupAvgResponseTime |-> 0]

ClampScore(x) ==
    IF x < 0 THEN 0 ELSE IF x > 100 * ScorePoint THEN 100 * ScorePoint ELSE x

\* The malicious penalty, in points, without its cap.
MaliciousDeductionUncapped(count) == count * MaliciousPenalty

\* The malicious penalty, in points: 20 per incident, 50 at most.
MaliciousDeduction(count) ==
    IF count * MaliciousPenalty > MaliciousCap
    THEN MaliciousCap
    ELSE count * MaliciousPenalty

\* A success was recorded, whenever it was.
SucceededOnce(info, t) == info.CatchupLastSuccess # 0

\* The recency bonus applies: !info.CatchupLastSuccess.IsZero() &&
\* time.Since(info.CatchupLastSuccess) < recencyWindow.
SucceededRecently(info, t) ==
    info.CatchupLastSuccess # 0 /\ t - info.CatchupLastSuccess < RecencyWindow

\* The reputation algorithm: the score of a record at clock reading t.
CalculateReputation(info, t) ==
    LET totalAttempts == info.CatchupSuccesses + info.CatchupFailures
    IN  IF totalAttempts = 0
        THEN BaseScore * ScorePoint
        ELSE
          LET successRate == (info.CatchupSuccesses * 100 * ScorePoint) \div totalAttempts
              weighted == (successRate * SuccessWeightPct) \div 100
                          + (BaseScore * ScorePoint * (100 - SuccessWeightPct)) \div 100
              deduction == MaliciousDeduction(info.CatchupMaliciousCount)
              penalised == weighted - deduction * ScorePoint
              bonused == IF SucceededRecently(info, t) THEN penalised + RecencyBonus * ScorePoint
                         ELSE penalised
          IN  ClampScore(bonused)

\* The record with its score left as it was.
WithStaleReputation(info, t) == info

\* calculateAndUpdateReputation(info): the score is stored in the record.

WithReputation(info, t) ==
    [info EXCEPT !.CatchupReputationScore = CalculateReputation(info, t)]

\* The running average of the response time (80% new sample, 20% previous).
AvgAfterSuccess(avg, duration) ==
    IF avg = 0 THEN duration ELSE (8 * duration + 2 * avg) \div 10

AfterAttempt(info, t) ==
    [info EXCEPT !.CatchupAttempts = @ + 1, !.CatchupLastAttempt = t]

AfterSuccess(info, duration, t) ==
    WithReputation(
        [info EXCEPT !.CatchupSuccesses = @ + 1,
                     !.CatchupLastSuccess = t,
                     !.CatchupAvgResponseTime = AvgAfterSuccess(@, duration)], t)

AfterFailure(info, t) ==
    WithReputation(
        [info EXCEPT !.CatchupFailures = @ + 1, !.CatchupLastFailure = t], t)

\* The incident counted, the score left as it was.
AfterMaliciousUnscored(info, t) == [info EXCEPT !.CatchupMaliciousCount = @ + 1]

AfterMalicious(info, t) ==
    WithReputation([info EXCEPT !.CatchupMaliciousCount = @ + 1], t)

\* A reset that leaves the neutral score in place of zero.
AfterResetToBaseScore(info) ==
    [info EXCEPT !.CatchupAttempts = 0, !.CatchupSuccesses = 0,
                 !.CatchupFailures = 0, !.CatchupMaliciousCount = 0,
                 !.CatchupLastAttempt = 0, !.CatchupLastSuccess = 0,
                 !.CatchupLastFailure = 0, !.CatchupAvgResponseTime = 0,
                 !.CatchupReputationScore = BaseScore * ScorePoint]

\* pr.ResetReputation on one record: the nine reputation fields are zeroed.
AfterReset(info) ==
    [info EXCEPT !.CatchupAttempts = 0, !.CatchupSuccesses = 0,
                 !.CatchupFailures = 0, !.CatchupMaliciousCount = 0,
                 !.CatchupLastAttempt = 0, !.CatchupLastSuccess = 0,
                 !.CatchupLastFailure = 0, !.CatchupAvgResponseTime = 0,
                 !.CatchupReputationScore = 0]



(***************************************************************************)
(* PeerRegistry operations.                                                *)
(***************************************************************************)
\* The history of a peer for which no score was stored by hand.
NoOverride == [stored |-> FALSE, score |-> 0, followed |-> FALSE]

\* History, kept for the peers in DOMAIN h: a score was stored by hand for p.
OverrideStored(h, p, score) ==
    IF p \in DOMAIN h
    THEN [h EXCEPT ![p] = [stored |-> TRUE, score |-> score, followed |-> FALSE]]
    ELSE h

\* History: an outcome (success, failure, malicious) was recorded for p.
OutcomeRecorded(h, p) ==
    IF p \in DOMAIN h /\ h[p].stored THEN [h EXCEPT ![p].followed = TRUE] ELSE h

\* A goroutine in SavePeerRegistryCache holds pr.mu for reading from
\* pr.mu.RLock() until the deferred pr.mu.RUnlock() runs at its return.
HoldsRLock(sv) == sv.rlock

\* A mutex whose readers do not keep writers out.
WriteLockAlwaysFree == TRUE

\* pr.mu.Lock() returns only while no reader and no other writer holds
\* pr.mu.
WriteLockFree ==
    /\ \A s \in DOMAIN savers : ~HoldsRLock(savers[s])
    /\ ~loader.wlock

\* A mutex whose writer does not keep readers out.
RLockAlwaysFree == TRUE

\* pr.mu.RLock() returns only while no writer holds pr.mu.
RLockFree == ~loader.wlock

\* pr.AddPeer(id): creates the record unless the peer is known.
AddPeer(p) ==
    /\ WriteLockFree
    /\ p \notin DOMAIN peers
    /\ peers' = MapSet(peers, p, NewPeerInfo)
    /\ UNCHANGED <<file, lastErr, now, cacheVars, valVars, saveVars, server, loadVars, wait>>

\* pr.RecordCatchupAttempt(id): counts the attempt; the score is not refreshed.
RecordCatchupAttempt(p) ==
    /\ WriteLockFree
    /\ p \in DOMAIN peers
    /\ peers[p].CatchupAttempts < MaxCount
    /\ peers' = [peers EXCEPT ![p] = AfterAttempt(@, now)]
    /\ UNCHANGED <<file, lastErr, now, cacheVars, valVars, saveVars, server, loadVars, wait>>

\* pr.RecordCatchupSuccess(id, duration)
RecordCatchupSuccess(p, ms) ==
    /\ WriteLockFree
    /\ p \in DOMAIN peers
    /\ peers[p].CatchupSuccesses < MaxCount
    /\ peers' = [peers EXCEPT ![p] = AfterSuccess(@, ms * Millisecond, now)]
    /\ overrides' = OutcomeRecorded(overrides, p)
    /\ UNCHANGED <<file, lastErr, now, cacheVars, catchup, localMetrics, reports,
                   selection, recorders, saveVars, server, loadVars, wait>>

\* pr.RecordCatchupFailure(id)
RecordCatchupFailure(p) ==
    /\ WriteLockFree
    /\ p \in DOMAIN peers
    /\ peers[p].CatchupFailures < MaxCount
    /\ peers' = [peers EXCEPT ![p] = AfterFailure(@, now)]
    /\ overrides' = OutcomeRecorded(overrides, p)
    /\ UNCHANGED <<file, lastErr, now, cacheVars, catchup, localMetrics, reports,
                   selection, recorders, saveVars, server, loadVars, wait>>

\* pr.RecordCatchupMalicious(id)
RecordCatchupMalicious(p) ==
    /\ WriteLockFree
    /\ p \in DOMAIN peers
    /\ peers[p].CatchupMaliciousCount < MaxMalicious
    /\ peers' = [peers EXCEPT ![p] = AfterMalicious(@, now)]
    /\ overrides' = OutcomeRecorded(overrides, p)
    /\ UNCHANGED <<file, lastErr, now, cacheVars, catchup, localMetrics, reports,
                   selection, recorders, saveVars, server, loadVars, wait>>

\* The scores a caller of UpdateCatchupReputation passes, in points.
OverrideScores == {-5, 70, 150}

\* pr.UpdateCatchupReputation(id, score): stores the score, kept in range.
UpdateCatchupReputation(p, score) ==
    /\ WriteLockFree
    /\ p \in DOMAIN peers
    /\ peers' = [peers EXCEPT ![p].CatchupReputationScore =
                                   ClampScore(score * ScorePoint)]
    /\ overrides' = OverrideStored(overrides, p, ClampScore(score * ScorePoint))
    /\ UNCHANGED <<file, lastErr, now, cacheVars, catchup, localMetrics, reports,
                   selection, recorders, saveVars, server, loadVars, wait>>

\* pr.ResetReputation(id): zeroes the peer's catchup metrics.
ResetReputation(p) ==
    /\ WriteLockFree
    /\ p \in DOMAIN peers
    /\ peers' = [peers EXCEPT ![p] = AfterReset(@)]
    /\ UNCHANGED <<file, lastErr, now, cacheVars, valVars, saveVars, server, loadVars, wait>>

(***************************************************************************)
(* The snapshot file: SavePeerRegistryCache / LoadPeerRegistryCache.       *)
(***************************************************************************)
\* json.Marshal writes a string coerced to valid UTF-8 (invalid bytes become
\* U+FFFD); string(id) of a peer id that is not valid UTF-8 is not kept.
CoerceToValidUTF8(id) == IF id \in BinaryIds THEN "p?" ELSE id

\* A peer with any counter above zero is written, too.
ShouldCacheAnyCounter(info) ==
    \/ info.CatchupAttempts > 0 \/ info.DataHubURL # "" \/ info.Height > 0
    \/ info.CatchupSuccesses > 0 \/ info.CatchupFailures > 0
    \/ info.CatchupMaliciousCount > 0

\* Every peer is written.
ShouldCacheAlways(info) == TRUE

\* Only peers with meaningful metrics are written.
ShouldCache(info) ==
    info.CatchupAttempts > 0 \/ info.DataHubURL # "" \/ info.Height > 0

ToCachedPeerMetrics(info) ==
    [CatchupAttempts |-> info.CatchupAttempts,
     CatchupSuccesses |-> info.CatchupSuccesses,
     CatchupFailures |-> info.CatchupFailures,
     CatchupLastAttempt |-> info.CatchupLastAttempt,
     CatchupLastSuccess |-> info.CatchupLastSuccess,
     CatchupLastFailure |-> info.CatchupLastFailure,
     CatchupReputationScore |-> info.CatchupReputationScore,
     CatchupMaliciousCount |-> info.CatchupMaliciousCount,
     CatchupAvgResponseMS |-> info.CatchupAvgResponseTime \div Millisecond,
     Height |-> info.Height,
     BlockHash |-> info.BlockHash,
     DataHubURL |-> info.DataHubURL]

\* The documents Save can marshal from the registry content m (last_updated
\* is left out). Peers whose ids are written as the same key leave one
\* entry: that of the peer the iteration over the map comes to last.
PeerRegistryCaches(m) ==
    LET kept == {p \in DOMAIN m : ShouldCache(m[p])}
        keys == {CoerceToValidUTF8(p) : p \in kept}
        last == {w \in [keys -> kept] : \A k \in keys : CoerceToValidUTF8(w[k]) = k}
    IN  {[kind |-> "json", version |-> PeerRegistryCacheVersion,
          peers |-> [k \in keys |-> ToCachedPeerMetrics(m[w[k]])]] : w \in last}

\* pr.SavePeerRegistryCache(dir): with the read lock held, marshal, write a
\* temp file and rename it over the target. A failed write or rename leaves
\* the target as it was.
SavePeerRegistryCache(outcome) ==
    /\ \E cache \in PeerRegistryCaches(peers) :
          file' = IF outcome = "nil" THEN cache ELSE file
    /\ lastErr' = [op |-> "Save", err |-> outcome]
    /\ UNCHANGED <<peers, now, cacheVars, valVars, saveVars, server, loadVars, wait>>

\* time.Duration(ms), without the unit.
DurationOfCount(ms) == ms

\* time.Duration(ms) * time.Millisecond
DurationOfMilliseconds(ms) == ms * Millisecond

\* The cached DataHub URL is taken whenever there is one.
TakesCachedURLAlways(live, cached) == cached # ""

\* info.DataHubURL == "" && metrics.DataHubURL != ""
TakesCachedURL(live, cached) == live = "" /\ cached # ""

\* A created record with every flag at its zero value.
CreatedPeerInfoUnhealthy(metrics) ==
    [Height |-> metrics.Height, BlockHash |-> metrics.BlockHash,
     DataHubURL |-> metrics.DataHubURL,
     IsHealthy |-> FALSE, IsBanned |-> FALSE, IsConnected |-> FALSE,
     CatchupAttempts |-> 0, CatchupSuccesses |-> 0, CatchupFailures |-> 0,
     CatchupLastAttempt |-> 0, CatchupLastSuccess |-> 0, CatchupLastFailure |-> 0,
     CatchupReputationScore |-> 0, CatchupMaliciousCount |-> 0,
     CatchupAvgResponseTime |-> 0]

\* The record Load creates for an id the registry does not hold: id,
\* height, block hash and URL of the entry, IsHealthy true, every other
\* field at its zero value.
CreatedPeerInfo(metrics) ==
    [Height |-> metrics.Height, BlockHash |-> metrics.BlockHash,
     DataHubURL |-> metrics.DataHubURL,
     IsHealthy |-> TRUE, IsBanned |-> FALSE, IsConnected |-> FALSE,
     CatchupAttempts |-> 0, CatchupSuccesses |-> 0, CatchupFailures |-> 0,
     CatchupLastAttempt |-> 0, CatchupLastSuccess |-> 0, CatchupLastFailure |-> 0,
     CatchupReputationScore |-> 0, CatchupMaliciousCount |-> 0,
     CatchupAvgResponseTime |-> 0]

\* The record Load leaves for peer id, given the cached metrics.
RestoredPeerInfo(m, id, metrics) ==
    LET info == IF id \in DOMAIN m THEN m[id] ELSE CreatedPeerInfo(metrics)
        restored == [info EXCEPT
                       !.CatchupAttempts = metrics.CatchupAttempts,
                       !.CatchupSuccesses = metrics.CatchupSuccesses,
                       !.CatchupFailures = metrics.CatchupFailures,
                       !.CatchupLastAttempt = metrics.CatchupLastAttempt,
                       !.CatchupLastSuccess = metrics.CatchupLastSuccess,
                       !.CatchupLastFailure = metrics.CatchupLastFailure,
                       !.CatchupReputationScore = metrics.CatchupReputationScore,
                       !.CatchupMaliciousCount = metrics.CatchupMaliciousCount,
                       !.CatchupAvgResponseTime =
                            DurationOfMilliseconds(metrics.CatchupAvgResponseMS)]
        withURL == IF TakesCachedURL(restored.DataHubURL, metrics.DataHubURL)
                   THEN [restored EXCEPT !.DataHubURL = metrics.DataHubURL]
                   ELSE restored
    IN  IF withURL.Height = 0 /\ metrics.Height > 0
        THEN [withURL EXCEPT !.Height = metrics.Height,
                             !.BlockHash = metrics.BlockHash]
        ELSE withURL

\* A Load that does not compare the version of the file.
LoadErrorAnyVersion(f) ==
    IF f.kind = "missing" THEN "nil"
    ELSE IF f.kind = "corrupt" THEN "failed to unmarshal"
    ELSE "nil"

\* The error LoadPeerRegistryCache returns for the file f.
LoadError(f) ==
    IF f.kind = "missing" THEN "nil"
    ELSE IF f.kind = "corrupt" THEN "failed to unmarshal"
    ELSE IF f.version # PeerRegistryCacheVersion THEN "version mismatch"
    ELSE "nil"

\* The registry content after Load of the file f.
PeersAfterLoad(m, f) ==
    IF f.kind = "json" /\ LoadError(f) = "nil"
    THEN [id \in (DOMAIN m) \cup (DOMAIN f.peers) |->
            IF id \in DOMAIN f.peers THEN RestoredPeerInfo(m, id, f.peers[id])
            ELSE m[id]]
    ELSE m

\* pr.LoadPeerRegistryCache(dir)
LoadPeerRegistryCache ==
    /\ peers' = PeersAfterLoad(peers, file)
    /\ lastErr' = [op |-> "Load", err |-> LoadError(file)]
    /\ UNCHANGED <<file, now, cacheVars, valVars, saveVars, server, loadVars, wait>>



\* The snapshot files found in the cache directory that the registry did not
\* write: not JSON, of another version, or any well-formed version-1.0
\* document (the schema bounds neither the score nor the counters).
CachedMetrics(attempts, score) ==
    [CatchupAttempts |-> attempts, CatchupSuccesses |-> 0, CatchupFailures |-> 0,
     CatchupLastAttempt |-> 0, CatchupLastSuccess |-> 0, CatchupLastFailure |-> 0,
     CatchupReputationScore |-> score * ScorePoint,
     CatchupMaliciousCount |-> 0, CatchupAvgResponseMS |-> 0,
     Height |-> 0, BlockHash |-> "", DataHubURL |-> "http://a"]

SnapshotFiles ==
    {[kind |-> "corrupt", version |-> "", peers |-> EmptyMap],
     [kind |-> "json", version |-> "0.9", peers |-> ("pA" :> CachedMetrics(1, 50))],
     [kind |-> "json", version |-> "1.0", peers |-> ("pA" :> CachedMetrics(1, 50))],
     [kind |-> "json", version |-> "1.0", peers |-> ("pA" :> CachedMetrics(0, 150))]}

\* The file is replaced from outside the registry.
WriteSnapshotFile(f) ==
    /\ file' = f
    /\ UNCHANGED <<peers, lastErr, now, cacheVars, valVars, saveVars, server, loadVars, wait>>

InitRegistry == CacheNew /\ now = 1 /\ RegistryNew /\ ValidationIdle

\* One peer's record under every registry operation and under Load of the
\* files found in the cache directory.
NextRegistry ==
    \/ AddPeer("pA")
    \/ RecordCatchupAttempt("pA")
    \/ \E ms \in DurationsMs : RecordCatchupSuccess("pA", ms)
    \/ RecordCatchupFailure("pA")
    \/ RecordCatchupMalicious("pA")
    \/ \E score \in OverrideScores : UpdateCatchupReputation("pA", score)
    \/ ResetReputation("pA")
    \/ LoadPeerRegistryCache
    \/ \E f \in SnapshotFiles : WriteSnapshotFile(f)
    \/ Tick

SpecRegistry == InitRegistry /\ [][NextRegistry]_vars

\* One peer's record under the recording operations, Save and Load of the
\* registry's own snapshots.
NextSnapshot ==
    \/ AddPeer("pA")
    \/ RecordCatchupAttempt("pA")
    \/ \E ms \in DurationsMs : RecordCatchupSuccess("pA", ms)
    \/ RecordCatchupFailure("pA")
    \/ RecordCatchupMalicious("pA")
    \/ \E outcome \in {"nil", "failed to write"} : SavePeerRegistryCache(outcome)
    \/ LoadPeerRegistryCache
    \/ Tick

SpecSnapshot == InitRegistry /\ [][NextSnapshot]_vars



(***************************************************************************)
(* Properties of the registry counters and of the stored score.            *)
(***************************************************************************)
\* In one step, none of the peer's counters decreases and none of its
\* timestamps moves backwards.
CountersKept(before, after) ==
    /\ after.CatchupAttempts >= before.CatchupAttempts
    /\ after.CatchupSuccesses >= before.CatchupSuccesses
    /\ after.CatchupFailures >= before.CatchupFailures
    /\ after.CatchupMaliciousCount >= before.CatchupMaliciousCount
    /\ after.CatchupLastAttempt >= before.CatchupLastAttempt
    /\ after.CatchupLastSuccess >= before.CatchupLastSuccess
    /\ after.CatchupLastFailure >= before.CatchupLastFailure

C6_StepKeepsCounters ==
    \A p \in (DOMAIN peers) \cap (DOMAIN peers') : CountersKept(peers[p], peers'[p])

\* C6: for every peer, attempts, successes, failures and malicious_count
\* never decrease and last_attempt / last_success / last_failure never move
\* backwards, across every interleaving of the Record* calls and of snapshot
\* Loads into a registry that already holds live counters for the peer
\* (no ResetReputation is taken in this specification).
C6_CountersNeverDecrease == [][C6_StepKeepsCounters]_vars

\* C8: at every reachable state every stored reputation score lies in
\* [0,100], after any Record* calls, UpdateCatchupReputation with an
\* arbitrary score, ResetReputation, and Load of any well-formed
\* version-1.0 file.
C8_ScoreInRange ==
    \A p \in DOMAIN peers :
        /\ peers[p].CatchupReputationScore >= 0
        /\ peers[p].CatchupReputationScore <= 100 * ScorePoint



(***************************************************************************)
(* Block validation: reporting catchup outcomes to the registry.           *)
(* A catchup reports one attempt when it starts, one success per block it  *)
(* validates, and one failure if it fails. Each report goes to the P2P     *)
(* service; when there is no client or the call returns an error, the      *)
(* report falls back to the local metrics (which do not count attempts).   *)
(***************************************************************************)
MaxCatchups == 2    \* catchups started toward one peer

MaxBlocks == 2      \* blocks validated in one catchup

CatchupPeers == {"pA"}

\* What the RPC to the P2P service returns.
RpcResults == {"nil", "error"}

\* reportCatchupAttempt reaches the registry: a client and a nil error.
AttemptNeverReachesRegistry(client, err) == FALSE

AttemptReachesRegistry(client, err) == client /\ err = "nil"

\* reportCatchupSuccess / Failure / Malicious reach the registry.
ReportReachesRegistry(client, err) == client /\ err = "nil"

\* The sink of a report that does not return on an empty peer id.
SinkOfReportAnyID(p, client, local, err) ==
    IF ReportReachesRegistry(client, err) THEN "registry"
    ELSE IF local THEN "local"
    ELSE "none"

\* What reportCatchupSuccess / Failure / Malicious update: nothing for an
\* empty peer id, the registry if the client is set and its call returns
\* nil, else the local counters if u.peerMetrics is set.
SinkOfReport(p, client, local, err) ==
    IF p = "" THEN "none"
    ELSE IF ReportReachesRegistry(client, err) THEN "registry"
    ELSE IF local THEN "local"
    ELSE "none"

\* The history of the last report: what it was and what the call to the
\* P2P service returned, if one was made.
Traced(c, op, p, err) ==
    IF c.traced
    THEN [op |-> op, call |-> IF p = "" \/ ~c.client THEN "no call" ELSE err]
    ELSE c.last

\* u.peerMetrics.GetOrCreatePeerMetrics(peerID)
GetOrCreatePeerMetrics(m, p) ==
    IF p \in DOMAIN m THEN m[p]
    ELSE [successes |-> 0, failures |-> 0, malicious |-> 0]

\* reportCatchupAttempt(ctx, peerID), at the start of a catchup toward p.
reportCatchupAttempt(p, err) ==
    /\ catchup.pc = "idle"
    /\ p \in DOMAIN reports
    /\ reports[p].catchups < MaxCatchups
    /\ catchup' = [catchup EXCEPT !.pc = "running", !.peer = p,
                                  !.blocks = 0, !.flagged = FALSE,
                                  !.last = Traced(catchup, "attempt", p, err)]
    /\ peers' = IF p # "" /\ AttemptReachesRegistry(catchup.client, err)
                THEN [peers EXCEPT ![p] = AfterAttempt(@, now)]
                ELSE peers
    /\ reports' = [reports EXCEPT
                     ![p].catchups = @ + 1,
                     ![p].lostAttempts =
                         IF catchup.client /\ err = "nil" THEN @ ELSE @ + 1]
    /\ UNCHANGED <<file, lastErr, localMetrics, selection, recorders,
                 now, cacheVars, overrides, saveVars, server, loadVars, wait>>

\* reportCatchupSuccess(ctx, peerID, duration), after each validated block.
reportCatchupSuccess(ms, err) ==
    /\ catchup.pc = "running"
    /\ catchup.blocks < MaxBlocks
    /\ catchup' = [catchup EXCEPT
                     !.blocks = @ + 1,
                     !.last = Traced(catchup, "success", catchup.peer, err)]
    /\ LET sink == SinkOfReport(catchup.peer, catchup.client, catchup.local, err)
       IN  /\ peers' = IF sink = "registry"
                       THEN [peers EXCEPT ![catchup.peer] =
                                            AfterSuccess(@, ms * Millisecond, now)]
                       ELSE peers
           /\ localMetrics' = IF sink = "local"
                              THEN MapSet(localMetrics, catchup.peer,
                                     [GetOrCreatePeerMetrics(localMetrics, catchup.peer)
                                        EXCEPT !.successes = @ + 1])
                              ELSE localMetrics
    /\ reports' = [reports EXCEPT ![catchup.peer].validated = @ + 1]
    /\ UNCHANGED <<file, lastErr, selection, recorders,
                 now, cacheVars, overrides, saveVars, server, loadVars, wait>>

\* reportCatchupFailure(ctx, peerID), once, when the catchup fails.
reportCatchupFailure(err) ==
    /\ catchup.pc = "running"
    /\ catchup' = [catchup EXCEPT
                     !.pc = "idle",
                     !.last = Traced(catchup, "failure", catchup.peer, err)]
    /\ LET sink == SinkOfReport(catchup.peer, catchup.client, catchup.local, err)
       IN  /\ peers' = IF sink = "registry"
                       THEN [peers EXCEPT ![catchup.peer] = AfterFailure(@, now)]
                       ELSE peers
           /\ localMetrics' = IF sink = "local"
                              THEN MapSet(localMetrics, catchup.peer,
                                     [GetOrCreatePeerMetrics(localMetrics, catchup.peer)
                                        EXCEPT !.failures = @ + 1])
                              ELSE localMetrics
    /\ UNCHANGED <<file, lastErr, reports, selection, recorders,
                 now, cacheVars, overrides, saveVars, server, loadVars, wait>>

\* Local counters that take the malicious report whatever its sink.
LocalAfterMaliciousAlways(m, p, sink) ==
    MapSet(m, p, [GetOrCreatePeerMetrics(m, p) EXCEPT !.malicious = @ + 1])

\* The local counters after reportCatchupMalicious: RecordMaliciousAttempt
\* on the peer's metrics only when the report fell back to them.
LocalAfterMalicious(m, p, sink) ==
    IF sink = "local"
    THEN MapSet(m, p, [GetOrCreatePeerMetrics(m, p) EXCEPT !.malicious = @ + 1])
    ELSE m

\* reportCatchupMalicious(ctx, peerID, reason), at most once in a catchup.
reportCatchupMalicious(err) ==
    /\ catchup.pc = "running"
    /\ ~catchup.flagged
    /\ catchup' = [catchup EXCEPT
                     !.flagged = TRUE,
                     !.last = Traced(catchup, "malicious", catchup.peer, err)]
    /\ LET sink == SinkOfReport(catchup.peer, catchup.client, catchup.local, err)
       IN  /\ peers' = IF sink = "registry"
                       THEN [peers EXCEPT ![catchup.peer] = AfterMalicious(@, now)]
                       ELSE peers
           /\ localMetrics' = LocalAfterMalicious(localMetrics, catchup.peer, sink)
    /\ UNCHANGED <<file, lastErr, reports, selection, recorders,
                 now, cacheVars, overrides, saveVars, server, loadVars, wait>>

\* The catchup ends without a failure: nothing more is reported.
CatchupDone ==
    /\ catchup.pc = "running"
    /\ catchup' = [catchup EXCEPT !.pc = "idle"]
    /\ UNCHANGED <<regVars, localMetrics, reports, selection, recorders,
                 now, cacheVars, overrides, saveVars, server, loadVars, wait>>

\* The peer is connected and known to the registry; the validation server
\* runs with or without a P2P client. The clock stands still: the counters,
\* not the timestamps, are what the reports are followed for.
InitCatchup ==
    /\ CacheNew
    /\ now = 1
    /\ peers = [p \in CatchupPeers |-> NewPeerInfo]
    /\ file = NoFile
    /\ lastErr = NoCall
    /\ NoSaves
    /\ server = NoServer
    /\ loader = NoLoader
    /\ reads = NoRead
    /\ wait = NoWait
    /\ catchup \in {[NoCatchup EXCEPT !.client = c] : c \in BOOLEAN}
    /\ localMetrics = EmptyMap
    /\ reports = [p \in CatchupPeers |->
                    [catchups |-> 0, validated |-> 0, lostAttempts |-> 0]]
    /\ selection = NoSelection
    /\ recorders = EmptyMap
    /\ overrides = EmptyMap

NextCatchup ==
    \/ \E p \in CatchupPeers, err \in RpcResults : reportCatchupAttempt(p, err)
    \/ \E ms \in DurationsMs, err \in RpcResults : reportCatchupSuccess(ms, err)
    \/ \E err \in RpcResults : reportCatchupFailure(err)
    \/ \E err \in RpcResults : reportCatchupMalicious(err)
    \/ CatchupDone

SpecCatchup == InitCatchup /\ [][NextCatchup]_vars

MaxHeight == 1      \* heights run 0..MaxHeight, target heights 1..MaxHeight

SelectPeers == {"pA", "pB", "pC"}

FilterPeers == {"pA", "pB"}

\* The sequences that hold each element of the set S exactly once.
Arrangements(S) ==
    {q \in [1..Cardinality(S) -> S] : \A x \in S : \E i \in DOMAIN q : q[i] = x}

\* pr.GetPeersForCatchup(): the peers with a DataHub URL that are healthy
\* and not banned ...
SuitableForCatchup(info) ==
    info.DataHubURL # "" /\ info.IsHealthy /\ ~info.IsBanned

\* ... sorted by reputation score, highest first, then by last success,
\* most recent first.
RegistryBefore(m, a, b) ==
    \/ m[a].CatchupReputationScore > m[b].CatchupReputationScore
    \/ /\ m[a].CatchupReputationScore = m[b].CatchupReputationScore
       /\ m[a].CatchupLastSuccess > m[b].CatchupLastSuccess

RegistryPeersForCatchup(m) ==
    LET suitable == {p \in DOMAIN m : SuitableForCatchup(m[p])}
        Before(a, b) == RegistryBefore(m, a, b)
    IN  {r \in Arrangements(suitable) :
            \A i \in 1..(Len(r) - 1) : ~Before(r[i + 1], r[i])}

\* p.ID.String(): the text form of a peer id.
IDString(id) == "12D3" \o id

\* The gRPC handler GetPeersForCatchup: the registry's list as
\* PeerInfoForCatchup messages.
PeerInfoForCatchup(m, p) ==
    [Id |-> IDString(p),
     Height |-> m[p].Height,
     BlockHash |-> m[p].BlockHash,
     DataHubUrl |-> m[p].DataHubURL,
     IsHealthy |-> m[p].IsHealthy,
     CatchupReputationScore |-> m[p].CatchupReputationScore,
     CatchupAttempts |-> m[p].CatchupAttempts,
     CatchupSuccesses |-> m[p].CatchupSuccesses,
     CatchupFailures |-> m[p].CatchupFailures]

GetPeersForCatchupResponses(m) ==
    {[i \in DOMAIN r |-> PeerInfoForCatchup(m, r[i])] :
        r \in RegistryPeersForCatchup(m)}

\* selectBestPeersForCatchup keeps a peer of the response.
KeepsPeerAtAnyHeight(p, targetHeight) == p.IsHealthy /\ p.DataHubUrl # ""

KeepsPeer(p, targetHeight) ==
    /\ ~(p.Height < targetHeight)
    /\ p.IsHealthy
    /\ p.DataHubUrl # ""

PeerForCatchup(p) ==
    [ID |-> p.Id,
     DataHubURL |-> p.DataHubUrl,
     Height |-> p.Height,
     BlockHash |-> p.BlockHash,
     IsHealthy |-> p.IsHealthy,
     CatchupReputationScore |-> p.CatchupReputationScore,
     CatchupAttempts |-> p.CatchupAttempts,
     CatchupSuccesses |-> p.CatchupSuccesses,
     CatchupFailures |-> p.CatchupFailures]

ConvertedPeers(resp, targetHeight) ==
    LET Keep(p) == KeepsPeer(p, targetHeight)
        kept == SelectSeq(resp, Keep)
    IN  [i \in DOMAIN kept |-> PeerForCatchup(kept[i])]

\* successRateI > successRateJ, the rates being successes / attempts, or 0
\* when there is no attempt.
SuccessRateAbove(a, b) ==
    IF a.CatchupAttempts > 0
    THEN IF b.CatchupAttempts > 0
         THEN a.CatchupSuccesses * b.CatchupAttempts
                  > b.CatchupSuccesses * a.CatchupAttempts
         ELSE a.CatchupSuccesses > 0
    ELSE FALSE

\* The comparison given to sort.Slice, with the score ascending.
SortLessAscending(a, b) ==
    IF a.CatchupReputationScore # b.CatchupReputationScore
    THEN a.CatchupReputationScore < b.CatchupReputationScore
    ELSE SuccessRateAbove(a, b)

\* The comparison given to sort.Slice.
SortLess(a, b) ==
    IF a.CatchupReputationScore # b.CatchupReputationScore
    THEN a.CatchupReputationScore > b.CatchupReputationScore
    ELSE SuccessRateAbove(a, b)

\* The outcomes of sort.Slice(q, SortLess): every arrangement of q's
\* elements in which no element is less than the one before it (the sort is
\* not stable: elements that compare equal come in any order).
SortSlice(q) ==
    {r \in Arrangements({q[i] : i \in DOMAIN q}) :
        \A i \in 1..(Len(r) - 1) : ~SortLess(r[i + 1], r[i])}



\* selectBestPeersForCatchup(ctx, targetHeight), as it sorts its result:
\* ask the P2P service, keep the peers that pass, sort them. selection
\* records the call: which variant ran, the response it got, what it returned.
selectBestPeersForCatchup(targetHeight, err) ==
    /\ \E resp \in GetPeersForCatchupResponses(peers) :
         IF ~catchup.client
         THEN selection' = [ran |-> "sorting", target |-> targetHeight,
                            resp |-> << >>, list |-> << >>, err |-> "nil"]
         ELSE IF err # "nil"
         THEN selection' = [ran |-> "sorting", target |-> targetHeight,
                            resp |-> << >>, list |-> << >>, err |-> err]
         ELSE \E sorted \in SortSlice(ConvertedPeers(resp, targetHeight)) :
                selection' = [ran |-> "sorting", target |-> targetHeight,
                              resp |-> resp, list |-> sorted, err |-> "nil"]
    /\ UNCHANGED <<regVars, catchup, localMetrics, reports, recorders,
                 now, cacheVars, overrides, saveVars, server, loadVars, wait>>

\* selectBestPeersForCatchup(ctx, targetHeight), as it returns the peers in
\* the order of the response.
selectBestPeersForCatchupUnsorted(targetHeight, err) ==
    /\ \E resp \in GetPeersForCatchupResponses(peers) :
         IF ~catchup.client
         THEN selection' = [ran |-> "not sorting", target |-> targetHeight,
                            resp |-> << >>, list |-> << >>, err |-> "nil"]
         ELSE IF err # "nil"
         THEN selection' = [ran |-> "not sorting", target |-> targetHeight,
                            resp |-> << >>, list |-> << >>, err |-> err]
         ELSE selection' = [ran |-> "not sorting", target |-> targetHeight,
                            resp |-> resp,
                            list |-> ConvertedPeers(resp, targetHeight),
                            err |-> "nil"]
    /\ UNCHANGED <<regVars, catchup, localMetrics, reports, recorders,
                 now, cacheVars, overrides, saveVars, server, loadVars, wait>>

\* A registry record with the given fields.
PeerInfoWith(banned, healthy, url, height, score, counts, lastSuccess) ==
    [NewPeerInfo EXCEPT
        !.IsBanned = banned, !.IsHealthy = healthy, !.DataHubURL = url,
        !.Height = height, !.CatchupReputationScore = score * ScorePoint,
        !.CatchupAttempts = counts[1], !.CatchupSuccesses = counts[2],
        !.CatchupFailures = counts[3], !.CatchupLastSuccess = lastSuccess]

\* Registries whose peers differ in what the filters read.
FilterChoices ==
    {PeerInfoWith(banned, healthy, url, height, score, <<1, 1, 0>>, 1) :
        banned \in BOOLEAN, healthy \in BOOLEAN, url \in {"", "http://a"},
        height \in 0..MaxHeight, score \in {70, 80}}

InitFilter ==
    /\ CacheNew
    /\ now = 1
    /\ peers \in [FilterPeers -> FilterChoices]
    /\ file = NoFile
    /\ lastErr = NoCall
    /\ NoSaves
    /\ server = NoServer
    /\ loader = NoLoader
    /\ reads = NoRead
    /\ wait = NoWait
    /\ ValidationIdle

\* Registries of suitable peers that differ in what the orderings read:
\* <<attempts, successes, failures>>, score and last success.
SortChoices ==
    {PeerInfoWith(FALSE, TRUE, "http://a", MaxHeight, score, counts, lastSuccess) :
        score \in {70, 80},
        counts \in {<<2, 1, 0>>, <<1, 1, 1>>, <<1, 1, 0>>},
        lastSuccess \in 1..2}

InitSort ==
    /\ CacheNew
    /\ now = 2
    /\ peers \in [SelectPeers -> SortChoices]
    /\ file = NoFile
    /\ lastErr = NoCall
    /\ NoSaves
    /\ server = NoServer
    /\ loader = NoLoader
    /\ reads = NoRead
    /\ wait = NoWait
    /\ ValidationIdle

NextSelect ==
    \/ \E h \in 1..MaxHeight, err \in RpcResults : selectBestPeersForCatchup(h, err)
    \/ \E h \in 1..MaxHeight, err \in RpcResults :
           selectBestPeersForCatchupUnsorted(h, err)

SpecFilter == InitFilter /\ [][NextSelect]_vars

SpecSort == InitSort /\ [][NextSelect]_vars



(***************************************************************************)
(* Properties of the catchup peer list.                                    *)
(***************************************************************************)
\* The registry peer a listed entry stands for.
PeerOfID(id) == CHOOSE p \in DOMAIN peers : IDString(p) = id

\* C9: the peer list produced for catchup toward target height h (the
\* registry's GetPeersForCatchup followed by selectBestPeersForCatchup)
\* never contains a peer that is banned, is unhealthy, has an empty DataHub
\* URL, or reports a height below h, whatever that peer's reputation score.
C9_OnlySuitablePeersListed ==
    \A i \in DOMAIN selection.list :
        LET info == peers[PeerOfID(selection.list[i].ID)]
        IN  /\ ~info.IsBanned
            /\ info.IsHealthy
            /\ info.DataHubURL # ""
            /\ info.Height >= selection.target

\* A peer is listed while a banned peer of a higher score, that passes
\* every other filter, is left out.
C9_Witness ==
    /\ selection.ran = "sorting"
    /\ Len(selection.list) = 1
    /\ selection.list[1].CatchupReputationScore = 70 * ScorePoint
    /\ \E p \in DOMAIN peers :
          /\ peers[p].IsBanned /\ peers[p].IsHealthy /\ peers[p].DataHubURL # ""
          /\ peers[p].Height >= selection.target
          /\ peers[p].CatchupReputationScore = 80 * ScorePoint

\* The success rate successes / (successes + failures), 0 when there is no
\* outcome, of a is above / equal to that of b.
OutcomeRateAbove(a, b) ==
    LET na == a.CatchupSuccesses
        da == IF a.CatchupSuccesses + a.CatchupFailures > 0
              THEN a.CatchupSuccesses + a.CatchupFailures ELSE 1
        nb == b.CatchupSuccesses
        db == IF b.CatchupSuccesses + b.CatchupFailures > 0
              THEN b.CatchupSuccesses + b.CatchupFailures ELSE 1
    IN  na * db > nb * da

IdOrder == <<"pA", "pB", "pC">>

IdRank(p) == CHOOSE i \in DOMAIN IdOrder : IdOrder[i] = p

\* The four-key order: a comes before b.
FourKeyBefore(a, b) ==
    LET la == peers[PeerOfID(a.ID)].CatchupLastSuccess
        lb == peers[PeerOfID(b.ID)].CatchupLastSuccess
    IN  IF a.CatchupReputationScore # b.CatchupReputationScore
        THEN a.CatchupReputationScore > b.CatchupReputationScore
        ELSE IF OutcomeRateAbove(a, b) \/ OutcomeRateAbove(b, a)
        THEN OutcomeRateAbove(a, b)
        ELSE IF la # lb THEN la > lb
        ELSE IdRank(PeerOfID(a.ID)) < IdRank(PeerOfID(b.ID))

AttemptRate(a) ==
    IF a.CatchupAttempts > 0 THEN <<a.CatchupSuccesses, a.CatchupAttempts>>
    ELSE <<0, 1>>

\* Where the peer with the text id stands in the response.
PlaceInResponse(id) ==
    CHOOSE i \in DOMAIN selection.resp : selection.resp[i].Id = id

C11_SameSelection ==
    (/\ selection.ran # "none"
     /\ selection'.ran = selection.ran
     /\ selection.err = "nil" /\ selection'.err = "nil"
     /\ catchup.client
     /\ selection'.target = selection.target
     /\ peers' = peers)
    => selection'.list = selection.list

\* C11: two catchup selections made with no peer-affecting state change
\* between them return equal sequences (the same peers in the same order),
\* including when several peers tie on reputation score and success rate.
C11_SelectionsAgree == [][C11_SameSelection]_vars

(***************************************************************************)
(* Goroutines recording into the registry in parallel. Each performs       *)
(* RecordCatchupAttempt then RecordCatchupSuccess on the same peer. A      *)
(* mutator takes the registry's exclusive lock, updates the record it      *)
(* finds, and releases the lock.                                           *)
(***************************************************************************)
MaxRecorders == 3   \* goroutines recording in parallel

Recorders == 1..MaxRecorders

RecordedPeer == "pA"

\* A lock that excludes nobody.
MutexNeverHeld(rs) == TRUE

\* pr.mu.Lock() can be taken: no goroutine is inside a mutator.
MutexFree(rs) == \A r \in DOMAIN rs : rs[r].pc \notin {"in attempt", "in success"}

\* The goroutine enters its next mutator: it takes the lock and finds the
\* peer's record.
RecorderLock(r) ==
    /\ recorders[r].pc \in {"attempt", "success"}
    /\ MutexFree(recorders)
    /\ recorders' = [recorders EXCEPT ![r] =
                        [pc |-> IF @.pc = "attempt" THEN "in attempt"
                                ELSE "in success",
                         info |-> peers[RecordedPeer]]]
    /\ UNCHANGED <<regVars, catchup, localMetrics, reports, selection,
                   now, cacheVars, overrides, saveVars, server, loadVars, wait>>

\* pr.RecordCatchupAttempt(id), from the update of the record to the unlock.
RecorderAttempt(r) ==
    /\ recorders[r].pc = "in attempt"
    /\ peers' = [peers EXCEPT ![RecordedPeer] = AfterAttempt(recorders[r].info, now)]
    /\ recorders' = [recorders EXCEPT ![r] = [pc |-> "success", info |-> NewPeerInfo]]
    /\ UNCHANGED <<file, lastErr, catchup, localMetrics, reports, selection,
                   now, cacheVars, overrides, saveVars, server, loadVars, wait>>

\* pr.RecordCatchupSuccess(id, duration), from the update to the unlock.
RecorderSuccess(r, ms) ==
    /\ recorders[r].pc = "in success"
    /\ peers' = [peers EXCEPT ![RecordedPeer] =
                    AfterSuccess(recorders[r].info, ms * Millisecond, now)]
    /\ recorders' = [recorders EXCEPT ![r] = [pc |-> "done", info |-> NewPeerInfo]]
    /\ UNCHANGED <<file, lastErr, catchup, localMetrics, reports, selection,
                   now, cacheVars, overrides, saveVars, server, loadVars, wait>>

\* The peer is known to the registry; every goroutine is about to start.
InitRecorders ==
    /\ CacheNew
    /\ now = 1
    /\ peers = (RecordedPeer :> NewPeerInfo)
    /\ file = NoFile
    /\ lastErr = NoCall
    /\ NoSaves
    /\ server = NoServer
    /\ loader = NoLoader
    /\ reads = NoRead
    /\ wait = NoWait
    /\ catchup = NoCatchup
    /\ localMetrics = EmptyMap
    /\ reports = EmptyMap
    /\ selection = NoSelection
    /\ recorders = [r \in Recorders |-> [pc |-> "attempt", info |-> NewPeerInfo]]
    /\ overrides = EmptyMap

NextRecorders ==
    \/ \E r \in Recorders : RecorderLock(r)
    \/ \E r \in Recorders : RecorderAttempt(r)
    \/ \E r \in Recorders, ms \in DurationsMs : RecorderSuccess(r, ms)
    \/ Tick

SpecRecorders == InitRecorders /\ [][NextRecorders]_vars

RecordersDone == \A r \in Recorders : recorders[r].pc = "done"

\* The number of goroutines past their attempt / past their success.
RecordersPast(pcs) == Cardinality({r \in Recorders : recorders[r].pc \in pcs})

\* C12: N recorders running in parallel, each performing RecordAttempt then
\* RecordSuccess on the same peer, end with attempts = N, successes = N and
\* failures = 0; at every moment each counter equals the number of
\* recorders that have completed that call: no increment is lost under any
\* interleaving of the mutators.
C12_NoLostIncrement ==
    LET info == peers[RecordedPeer]
    IN  /\ info.CatchupAttempts = RecordersPast({"success", "in success", "done"})
        /\ info.CatchupSuccesses = RecordersPast({"done"})
        /\ info.CatchupFailures = 0
        /\ RecordersDone =>
              /\ info.CatchupAttempts = MaxRecorders
              /\ info.CatchupSuccesses = MaxRecorders

\* Every recorder is done, the clock having moved between the last attempt
\* and the last success.
C12_Witness ==
    /\ RecordersDone
    /\ peers[RecordedPeer].CatchupAttempts = MaxRecorders
    /\ peers[RecordedPeer].CatchupSuccesses = MaxRecorders
    /\ peers[RecordedPeer].CatchupLastAttempt < peers[RecordedPeer].CatchupLastSuccess

\* C13: after parallel recorders have each performed (RecordAttempt,
\* RecordSuccess) on a peer that has no failures and no malicious
\* incidents, that peer's reputation_score equals 100.
C13_ScoreIsHundred ==
    RecordersDone =>
        peers[RecordedPeer].CatchupReputationScore = 100 * ScorePoint

\* C13, as the algorithm has it: a success rate of 100 weighs 60, the base
\* score 20 and the recency bonus 10, so the score stored by each
\* RecordSuccess, and the one left when every recorder is done, is 90;
\* before the first success it is the base score 50.
C13_ScoreIsNinety ==
    LET info == peers[RecordedPeer]
    IN  /\ info.CatchupSuccesses > 0 => info.CatchupReputationScore = 90 * ScorePoint
        /\ info.CatchupSuccesses = 0 =>
              info.CatchupReputationScore = BaseScore * ScorePoint
        /\ info.CatchupReputationScore <= 90 * ScorePoint

\* Every recorder is done and the stored score is 90.
C13_Witness ==
    /\ RecordersDone
    /\ peers[RecordedPeer].CatchupFailures = 0
    /\ peers[RecordedPeer].CatchupMaliciousCount = 0
    /\ peers[RecordedPeer].CatchupReputationScore = 90 * ScorePoint

(***************************************************************************)
(* The reputation score of one peer, from several catchup histories.       *)
(***************************************************************************)
\* The record of a peer after the given numbers of successes and failures,
\* the last of them recorded at clock reading 1.
HistoryRecord(successes, failures) ==
    WithReputation(
        [NewPeerInfo EXCEPT
            !.CatchupAttempts = successes + failures,
            !.CatchupSuccesses = successes,
            !.CatchupFailures = failures,
            !.CatchupLastAttempt = IF successes + failures > 0 THEN 1 ELSE 0,
            !.CatchupLastSuccess = IF successes > 0 THEN 1 ELSE 0,
            !.CatchupLastFailure = IF failures > 0 THEN 1 ELSE 0,
            !.CatchupAvgResponseTime =
                 IF successes > 0 THEN 100 * Millisecond ELSE 0], 1)

\* <<successes, failures>> recorded before the run starts.
Histories == {<<0, 0>>, <<10, 0>>, <<10, 10>>}

InitReputation ==
    /\ CacheNew
    /\ now = 1
    /\ peers \in {("pA" :> HistoryRecord(h[1], h[2])) : h \in Histories}
    /\ file = NoFile
    /\ lastErr = NoCall
    /\ NoSaves
    /\ server = NoServer
    /\ loader = NoLoader
    /\ reads = NoRead
    /\ wait = NoWait
    /\ catchup = NoCatchup
    /\ localMetrics = EmptyMap
    /\ reports = EmptyMap
    /\ selection = NoSelection
    /\ recorders = EmptyMap
    /\ overrides = ("pA" :> NoOverride)

NextReputation ==
    \/ RecordCatchupAttempt("pA")
    \/ \E ms \in DurationsMs : RecordCatchupSuccess("pA", ms)
    \/ RecordCatchupFailure("pA")
    \/ RecordCatchupMalicious("pA")
    \/ \E score \in OverrideScores : UpdateCatchupReputation("pA", score)
    \/ Tick

SpecReputation == InitReputation /\ [][NextReputation]_vars

\* The step records one outcome for the peer: a success, a failure or a
\* malicious incident.
OutcomeStep(before, after) ==
    after.CatchupSuccesses + after.CatchupFailures + after.CatchupMaliciousCount
      = before.CatchupSuccesses + before.CatchupFailures
          + before.CatchupMaliciousCount + 1

\* last_success lies within the recency window before clock reading t.
RecentSuccess(info, t) ==
    info.CatchupLastSuccess # 0 /\ t - info.CatchupLastSuccess < RecencyWindow

\* The stored score is clamp(success_rate x 0.6 + 20 - min(20 x malicious, 50)
\* + (10 if the last success is recent), 0, 100), compared after multiplying
\* by successes + failures, to within two thousandths of a point (the
\* model's fixed-point rounding).
ScoreIsFormula(info, t) ==
    LET total == info.CatchupSuccesses + info.CatchupFailures
        penalty == IF 20 * info.CatchupMaliciousCount < 50
                   THEN 20 * info.CatchupMaliciousCount ELSE 50
        bonus == IF RecentSuccess(info, t) THEN 10 ELSE 0
        raw == ScorePoint * (60 * info.CatchupSuccesses
                               + total * (20 - penalty + bonus))
        clamped == IF raw < 0 THEN 0
                   ELSE IF raw > 100 * ScorePoint * total
                   THEN 100 * ScorePoint * total ELSE raw
        stored == info.CatchupReputationScore * total
    IN  /\ stored >= clamped - 2 * total
        /\ stored <= clamped + 2 * total

\* 90, then 70, 50, 40 after one, two, three malicious incidents, and 40
\* after every further one.
MaliciousSeries == <<90, 70, 50, 40>>

C14_Step ==
    \A p \in (DOMAIN peers) \cap (DOMAIN peers') :
        LET info == peers'[p]
            m == info.CatchupMaliciousCount
        IN  (/\ OutcomeStep(peers[p], info)
             /\ info.CatchupSuccesses + info.CatchupFailures > 0)
            => /\ ScoreIsFormula(info, now)
               /\ (/\ info.CatchupSuccesses > 0
                   /\ info.CatchupFailures = 0
                   /\ RecentSuccess(info, now))
                  => info.CatchupReputationScore
                        = MaliciousSeries[IF m < 3 THEN m + 1 ELSE 4] * ScorePoint

C15_Step ==
    \A p \in (DOMAIN peers) \cap (DOMAIN peers') :
        LET info == peers'[p]
            m == info.CatchupMaliciousCount
        IN  (/\ m = peers[p].CatchupMaliciousCount + 1
             /\ info.CatchupSuccesses + info.CatchupFailures = 0)
            => info.CatchupReputationScore
                  = (50 - (IF 20 * m < 50 THEN 20 * m ELSE 50)) * ScorePoint

\* C15: for a peer with successes + failures = 0 and malicious_count
\* m >= 1 (for example one attempt and one malicious incident), the score
\* refreshed by RecordMalicious is 50 - min(20m, 50), i.e. 30 for m = 1: the
\* neutral baseline with the malicious penalty subtracted.
C15_BaselineLessPenalty == [][C15_Step]_vars

\* The peer was fresh, then one attempt and one success were recorded, and
\* nothing else: no failure, no malicious incident, no score stored by hand.
OneAttemptOneSuccess(p) ==
    /\ peers[p].CatchupAttempts = 1
    /\ peers[p].CatchupSuccesses = 1
    /\ peers[p].CatchupFailures = 0
    /\ peers[p].CatchupMaliciousCount = 0
    /\ p \in DOMAIN overrides => ~overrides[p].stored

\* C16: after RecordAttempt then RecordSuccess on a fresh peer, the peer's
\* reputation_score reads 90 while less than one hour has elapsed since
\* last_success and reads 80 once more than one hour has elapsed, with no
\* further mutation of the record in between.
C16_ScoreFollowsClock ==
    \A p \in DOMAIN peers :
        OneAttemptOneSuccess(p) =>
            /\ now - peers[p].CatchupLastSuccess < RecencyWindow
                  => peers[p].CatchupReputationScore = 90 * ScorePoint
            /\ now - peers[p].CatchupLastSuccess > RecencyWindow
                  => peers[p].CatchupReputationScore = 80 * ScorePoint

\* C16, as the code has it: the score is computed when an outcome is
\* recorded and stored; it reads 90 after the success and keeps reading 90
\* however much time passes with no further mutation. What changes with
\* the clock is the algorithm's output for the record: 90 while the last
\* success is less than one hour old, 80 from then on.
C16_ScoreStoredAtSuccess ==
    \A p \in DOMAIN peers :
        OneAttemptOneSuccess(p) =>
            /\ peers[p].CatchupReputationScore = 90 * ScorePoint
            /\ CalculateReputation(peers[p], now)
                 = IF now - peers[p].CatchupLastSuccess < RecencyWindow
                   THEN 90 * ScorePoint ELSE 80 * ScorePoint

\* More than an hour after the success, the stored score still reads 90.
C16_Witness ==
    \E p \in DOMAIN peers :
        /\ OneAttemptOneSuccess(p)
        /\ now - peers[p].CatchupLastSuccess > RecencyWindow
        /\ peers[p].CatchupReputationScore = 90 * ScorePoint
        /\ CalculateReputation(peers[p], now) = 80 * ScorePoint

\* An outcome recorded for a peer whose score was stored by hand leaves the
\* score the algorithm computes from the record.
C17_Step ==
    \A p \in (DOMAIN overrides) \cap (DOMAIN peers) \cap (DOMAIN peers') :
        (overrides[p].stored /\ OutcomeStep(peers[p], peers'[p]))
        => peers'[p].CatchupReputationScore = CalculateReputation(peers'[p], now)

\* C17: after UpdateCatchupReputation(id, s) has stored an override, the
\* next RecordSuccess, RecordFailure or RecordMalicious on id sets
\* reputation_score to the Reputation Engine's output for the record's
\* counters, independent of s: no manual override survives the next
\* counter event.
C17_OverrideRecomputed == [][C17_Step]_vars

\* The score 100 was stored by hand (from a request of 150), an outcome was
\* recorded since, and the score is no longer 100.
C17_Witness ==
    /\ "pA" \in DOMAIN overrides
    /\ overrides["pA"].stored
    /\ overrides["pA"].followed
    /\ overrides["pA"].score = 100 * ScorePoint
    /\ peers["pA"].CatchupReputationScore < 100 * ScorePoint

(***************************************************************************)
(* The registry across restarts: a node records into its registry, saves   *)
(* the snapshot, restarts with an empty registry, and loads the snapshot,  *)
(* before or after it has learnt about peers again.                        *)
(***************************************************************************)
DataHubURLs == {"http://a", "http://b"}

\* The hash of the block a peer reports at each height.
BlockHashes == <<"hash-1", "hash-2", "hash-3">>

\* pr.UpdateDataHubURL(id, url)
UpdateDataHubURL(p, url) ==
    /\ WriteLockFree
    /\ p \in DOMAIN peers
    /\ peers' = [peers EXCEPT ![p].DataHubURL = url]
    /\ UNCHANGED <<file, lastErr, now, cacheVars, valVars, saveVars, server, loadVars, wait>>

\* pr.UpdateHeight(id, height, blockHash)
UpdateHeight(p, height) ==
    /\ WriteLockFree
    /\ p \in DOMAIN peers
    /\ peers' = [peers EXCEPT ![p].Height = height,
                              ![p].BlockHash = BlockHashes[height]]
    /\ UNCHANGED <<file, lastErr, now, cacheVars, valVars, saveVars, server, loadVars, wait>>

\* The node restarts: NewPeerRegistry() again, the snapshot file as it was.
Restart ==
    /\ peers # EmptyMap
    /\ peers' = EmptyMap
    /\ lastErr' = NoCall
    /\ UNCHANGED <<file, now, cacheVars, valVars, saveVars, server, loadVars, wait>>

\* "pA" is recorded into and updated; "pX", whose id is not valid UTF-8, is
\* added and given a DataHub URL.
NextRestart ==
    \/ \E p \in {"pA", "pX"} : AddPeer(p)
    \/ \E url \in DataHubURLs : UpdateDataHubURL("pA", url)
    \/ UpdateDataHubURL("pX", "http://a")
    \/ \E height \in 1..MaxHeight : UpdateHeight("pA", height)
    \/ RecordCatchupAttempt("pA")
    \/ \E ms \in DurationsMs : RecordCatchupSuccess("pA", ms)
    \/ SavePeerRegistryCache("nil")
    \/ LoadPeerRegistryCache
    \/ Restart

SpecRestart == InitRegistry /\ [][NextRestart]_vars

\* The registry holds exactly what Load of the snapshot file leaves in an
\* empty registry.
LoadedFromSnapshot ==
    /\ file.kind = "json"
    /\ LoadError(file) = "nil"
    /\ peers = PeersAfterLoad(EmptyMap, file)

\* A Save from a registry loaded from the snapshot leaves the snapshot as it
\* was (Save is the only operation that writes the file).
C18_Step == LoadedFromSnapshot => file' = file

\* C18: snapshot round-trip: for any registry R, Save from R, Load into an
\* empty registry R', then Save from R' yields a second snapshot with the
\* same peer key set and the same field values as the first, ignoring
\* last_updated.
C18_SnapshotRoundTrip == [][C18_Step]_vars

\* After a restart and a Load, the registry was saved again: it holds the
\* peer created from the key written for "pX" and not "pX", and the
\* snapshot holds the metrics of "pA" and that key.
C18_Witness ==
    /\ lastErr = [op |-> "Save", err |-> "nil"]
    /\ LoadedFromSnapshot
    /\ DOMAIN peers = {"pA", CoerceToValidUTF8("pX")}
    /\ DOMAIN file.peers = {"pA", CoerceToValidUTF8("pX")}
    /\ file.peers["pA"].CatchupAvgResponseMS = 100
    /\ file.peers["pA"].Height = 1

\* The step is a Save that returned nil.
SaveStep ==
    /\ lastErr' = [op |-> "Save", err |-> "nil"]
    /\ peers' = peers
    /\ (file' # file \/ lastErr' # lastErr)

\* The peers with an interaction history: an attempt, a DataHub URL or a
\* height.
WithHistory ==
    {p \in DOMAIN peers :
        \/ peers[p].CatchupAttempts > 0
        \/ peers[p].DataHubURL # ""
        \/ peers[p].Height > 0}

C19_Step ==
    SaveStep =>
        /\ file'.kind = "json"
        /\ DOMAIN file'.peers = {CoerceToValidUTF8(p) : p \in WithHistory}
        /\ \A p \in DOMAIN peers :
              peers[p] = NewPeerInfo =>
                  /\ p \notin DOMAIN file'.peers
                  /\ p \notin DOMAIN PeersAfterLoad(EmptyMap, file')

\* C19: Save writes a peer to the snapshot if and only if attempts > 0 or
\* its DataHub URL is non-empty or its height > 0 (under the key its id is
\* written as); a record created by AddPeer with no further updates is
\* absent from the snapshot and does not exist in a registry loaded from it.
C19_OnlyPeersWithHistorySaved == [][C19_Step]_vars

\* A Save has returned nil with "pA" fresh from AddPeer and "pX" holding a
\* DataHub URL: the snapshot holds the one key written for "pX".
C19_Witness ==
    /\ lastErr = [op |-> "Save", err |-> "nil"]
    /\ DOMAIN peers = {"pA", "pX"}
    /\ peers["pA"] = NewPeerInfo
    /\ peers["pX"].DataHubURL # ""
    /\ file.kind = "json"
    /\ DOMAIN file.peers = {CoerceToValidUTF8("pX")}
    /\ "pA" \notin DOMAIN PeersAfterLoad(EmptyMap, file)

\* What Load leaves of the record live, for a peer the snapshot holds as
\* cached: the DataHub URL and the height of the snapshot only where the
\* record has none, the counters, timestamps and score of the snapshot.
MergedWith(after, live, cached) ==
    /\ after.DataHubURL = IF live.DataHubURL = "" THEN cached.DataHubURL
                          ELSE live.DataHubURL
    /\ after.Height = IF live.Height = 0 THEN cached.Height ELSE live.Height
    /\ after.CatchupAttempts = cached.CatchupAttempts
    /\ after.CatchupSuccesses = cached.CatchupSuccesses
    /\ after.CatchupFailures = cached.CatchupFailures
    /\ after.CatchupMaliciousCount = cached.CatchupMaliciousCount
    /\ after.CatchupLastAttempt = cached.CatchupLastAttempt
    /\ after.CatchupLastSuccess = cached.CatchupLastSuccess
    /\ after.CatchupLastFailure = cached.CatchupLastFailure
    /\ after.CatchupReputationScore = cached.CatchupReputationScore
    /\ after.IsHealthy = live.IsHealthy
    /\ after.IsBanned = live.IsBanned

UndecodableKey == "invalid-peer-id-!@#$"

\* A file of the current version whose only entry has that key: the
\* counters of the entry are under names the cache format does not have
\* and read as zero, the DataHub URL is read.
InvalidPeerIDFile ==
    [kind |-> "json", version |-> PeerRegistryCacheVersion,
     peers |-> (UndecodableKey :> CachedMetrics(0, 0))]

\* The registry of one peer next to a snapshot file that is missing,
\* unparsable, of another version, or loadable; Restart makes a later Load
\* the first call of a new process.
NextLoad ==
    \/ AddPeer("pA")
    \/ \E url \in DataHubURLs : UpdateDataHubURL("pA", url)
    \/ RecordCatchupAttempt("pA")
    \/ \E ms \in DurationsMs : RecordCatchupSuccess("pA", ms)
    \/ \E f \in SnapshotFiles \cup {InvalidPeerIDFile} : WriteSnapshotFile(f)
    \/ LoadPeerRegistryCache
    \/ Restart
    \/ Tick

SpecLoad == InitRegistry /\ [][NextLoad]_vars

\* The step is the first Load since construction or restart.
LoadStep == lastErr.op # "Load" /\ lastErr'.op = "Load"

C21_Step ==
    LoadStep =>
        /\ file.kind = "missing" =>
              lastErr'.err = "nil" /\ peers' = peers
        /\ file.kind = "corrupt" =>
              lastErr'.err = "failed to unmarshal" /\ peers' = peers
        /\ (file.kind = "json" /\ file.version # PeerRegistryCacheVersion) =>
              lastErr'.err = "version mismatch" /\ peers' = peers

\* C21: Load leaves the registry exactly as it was before the call when
\* the snapshot file is missing (Load returns nil), when it is not
\* parsable (Load returns the unmarshal error) and when its version
\* differs from PeerRegistryCacheVersion (Load returns the version
\* mismatch error): no peer is added or changed.
C21_LoadLeavesRegistry == [][C21_Step]_vars

\* Load has returned the version mismatch error for a file that holds one
\* attempt of "pA"; the registry still holds "pA" without any attempt.
C21_Witness ==
    /\ lastErr = [op |-> "Load", err |-> "version mismatch"]
    /\ file.kind = "json"
    /\ file.version = "0.9"
    /\ file.peers["pA"].CatchupAttempts = 1
    /\ "pA" \in DOMAIN peers
    /\ peers["pA"].CatchupAttempts = 0

\* pr.PeerCount()
PeerCount == Cardinality(DOMAIN peers)

\* C26: Load creates no registry record for a snapshot entry whose key is
\* not a valid peer id: once Load has returned nil for the version-1.0
\* file whose only entry is keyed by an undecodable string, in a registry
\* that held no peer, PeerCount() is 0.
C26_UndecodableKeySkipped ==
    (/\ lastErr = [op |-> "Load", err |-> "nil"]
     /\ file = InvalidPeerIDFile
     /\ "pA" \notin DOMAIN peers)
        => PeerCount = 0

\* ---------------------------------------------------------------------
\* SavePeerRegistryCache step by step, next to mutators and other Saves
\* ---------------------------------------------------------------------

\* The goroutines calling SavePeerRegistryCache.
Savers == {1, 2}

\* The peers of the registry the Saves run on.
SavedPeers == {"pA", "pB"}

\* The readings time.Now().UnixNano() can return to the Saves in flight.
UnixNanos == {1, 2}

\* What os.WriteFile and os.Rename can return.
WriteResults == {"nil", "failed to write"}

RenameResults == {"nil", "failed to finalize"}

\* A file opened with O_TRUNC and not written yet: no JSON document.
Truncated == [kind |-> "corrupt", version |-> "", peers |-> EmptyMap]

\* A goroutine before its call of SavePeerRegistryCache. todo: the records
\* the range loop has not visited; cache: cache.Peers; temp: the number in
\* the temp file's name (0: none yet); fd: where the file os.WriteFile
\* holds open is linked; fault: the error came from the file system call
\* itself and not from the state of the directory.
IdleSaver ==
    [pc |-> "idle", rlock |-> FALSE, todo |-> {}, cache |-> EmptyMap,
     temp |-> 0, fd |-> "none", err |-> "none", fault |-> FALSE]

\* pr.mu.RLock(); cache := &PeerRegistryCache{...}
SaveLock(s) ==
    /\ savers[s].pc = "idle"
    /\ RLockFree
    /\ savers' = [savers EXCEPT ![s].pc = "copying", ![s].rlock = TRUE,
                                ![s].todo = DOMAIN peers]
    /\ UNCHANGED <<regVars, tempFiles, now, cacheVars, valVars, server, loadVars, wait>>

\* One iteration of `for id, info := range pr.peers`.
SaveCopy(s, p) ==
    /\ savers[s].pc = "copying"
    /\ p \in savers[s].todo
    /\ savers' = [savers EXCEPT
                    ![s].todo = @ \ {p},
                    ![s].cache = IF p \in DOMAIN peers /\ ShouldCache(peers[p])
                                 THEN MapSet(@, CoerceToValidUTF8(p),
                                             ToCachedPeerMetrics(peers[p]))
                                 ELSE @]
    /\ UNCHANGED <<regVars, tempFiles, now, cacheVars, valVars, server, loadVars, wait>>

\* json.MarshalIndent(cache); tempFile := cacheFile + ".tmp." + UnixNano()
SaveTempFile(s, nano) ==
    /\ savers[s].pc = "copying"
    /\ savers[s].todo = {}
    /\ savers' = [savers EXCEPT ![s].pc = "named", ![s].temp = nano]
    /\ UNCHANGED <<regVars, tempFiles, now, cacheVars, valVars, server, loadVars, wait>>

\* The goroutine returns err: the deferred pr.mu.RUnlock() runs.
Returned(sv, err, fault) ==
    [sv EXCEPT !.pc = "done", !.rlock = FALSE, !.fd = "none",
               !.err = err, !.fault = fault]

\* os.WriteFile, first half: the temp file is created, or truncated if a
\* file of that name exists; on an error Save returns it.
SaveOpen(s, outcome) ==
    /\ savers[s].pc = "named"
    /\ IF outcome = "nil"
       THEN /\ tempFiles' = MapSet(tempFiles, savers[s].temp, Truncated)
            /\ savers' = [savers EXCEPT ![s].pc = "opened", ![s].fd = "temp"]
            /\ UNCHANGED lastErr
       ELSE /\ savers' = [savers EXCEPT ![s] = Returned(@, outcome, TRUE)]
            /\ lastErr' = [op |-> "Save", err |-> outcome]
            /\ UNCHANGED tempFiles
    /\ UNCHANGED <<peers, file, now, cacheVars, valVars, server, loadVars, wait>>

\* os.WriteFile, second half: the document is written to the open file,
\* wherever that file is linked by now, and the file is closed.
SaveWrite(s) ==
    /\ savers[s].pc = "opened"
    /\ LET data == [kind |-> "json", version |-> PeerRegistryCacheVersion,
                    peers |-> savers[s].cache]
       IN  /\ tempFiles' = IF savers[s].fd = "temp"
                           THEN MapSet(tempFiles, savers[s].temp, data)
                           ELSE tempFiles
           /\ file' = IF savers[s].fd = "target" THEN data ELSE file
    /\ savers' = [savers EXCEPT ![s].pc = "written", ![s].fd = "none"]
    /\ UNCHANGED <<peers, lastErr, now, cacheVars, valVars, server, loadVars, wait>>

\* The temp files left after a rename that failed.
TempFilesKept(tf, temp) == tf

\* os.Remove(tempFile) after a rename that failed.
TempFilesAfterRemove(tf, temp) == MapDel(tf, {temp})

\* Where the files other goroutines hold open are linked after the file
\* named temp was moved onto the target (moved) or removed.
Relinked(sv, temp, moved) ==
    IF sv.fd = "temp" /\ sv.temp = temp
    THEN [sv EXCEPT !.fd = IF moved THEN "target" ELSE "unlinked"]
    ELSE IF sv.fd = "target" /\ moved
    THEN [sv EXCEPT !.fd = "unlinked"]
    ELSE sv

\* os.Rename(tempFile, cacheFile), os.Remove(tempFile) if it failed, and
\* the return. The rename fails when the file system refuses it and when
\* no file of that name is left.
SaveRename(s, outcome) ==
    /\ savers[s].pc = "written"
    /\ LET temp == savers[s].temp
           exists == temp \in DOMAIN tempFiles
       IN  /\ outcome = "nil" => exists
           /\ file' = IF outcome = "nil" THEN tempFiles[temp] ELSE file
           /\ tempFiles' = IF outcome = "nil" THEN MapDel(tempFiles, {temp})
                           ELSE TempFilesAfterRemove(tempFiles, temp)
           /\ savers' = [t \in DOMAIN savers |->
                           IF t = s
                           THEN Returned(savers[s], outcome,
                                         outcome # "nil" /\ exists)
                           ELSE Relinked(savers[t], temp, outcome = "nil")]
    /\ lastErr' = [op |-> "Save", err |-> outcome]
    /\ UNCHANGED <<peers, now, cacheVars, valVars, server, loadVars, wait>>

InitSavers ==
    /\ CacheNew
    /\ now = 1
    /\ peers = [p \in SavedPeers |-> NewPeerInfo]
    /\ file = NoFile
    /\ lastErr = NoCall
    /\ savers = [s \in Savers |-> IdleSaver]
    /\ tempFiles = EmptyMap
    /\ server = NoServer
    /\ loader = NoLoader
    /\ reads = NoRead
    /\ wait = NoWait
    /\ ValidationIdle

NextSavers ==
    \/ \E p \in SavedPeers : RecordCatchupAttempt(p)
    \/ \E s \in Savers : SaveLock(s)
    \/ \E s \in Savers, p \in SavedPeers : SaveCopy(s, p)
    \/ \E s \in Savers, nano \in UnixNanos : SaveTempFile(s, nano)
    \/ \E s \in Savers, outcome \in WriteResults : SaveOpen(s, outcome)
    \/ \E s \in Savers : SaveWrite(s)
    \/ \E s \in Savers, outcome \in RenameResults : SaveRename(s, outcome)

SpecSavers == InitSavers /\ [][NextSavers]_vars

\* No two Saves in flight have the same temp file name.
TempFilesDistinct ==
    \A s, t \in DOMAIN savers :
        (s # t /\ savers[s].pc \in {"named", "opened", "written"}
               /\ savers[t].pc \in {"named", "opened", "written"})
            => savers[s].temp # savers[t].temp

\* Every Save that returned, returned nil, unless the file system itself
\* refused its write or its rename.
SavesSucceed ==
    \A s \in DOMAIN savers :
        (savers[s].pc = "done" /\ ~savers[s].fault) => savers[s].err = "nil"

\* The target file is absent or a complete document.
TargetComplete == file.kind \in {"missing", "json"}

\* C22: concurrent Save calls on the same directory never interfere: no
\* two of them write the same temp file, each returns success, and at
\* every moment the target file is either absent or one Save's complete
\* snapshot, so that no Load reads a truncated file.
C22_SavesNeverInterfere ==
    /\ TempFilesDistinct
    /\ SavesSucceed
    /\ TargetComplete

\* The goroutine is between the start of os.WriteFile and the end of
\* os.Rename.
InDiskIO(sv) == sv.pc \in {"opened", "written"}

\* C23: Save holds the registry's shared lock only while it copies and
\* marshals the records: a goroutine that has begun the temp-file write
\* or awaits the rename does not hold pr.mu, so that it keeps no mutator
\* waiting for the duration of its disk I/O.
C23_LockFreeDuringDiskIO ==
    \A s \in DOMAIN savers : InDiskIO(savers[s]) => ~HoldsRLock(savers[s])

\* The document a goroutine's cache.Peers makes.
SnapshotOf(sv) ==
    [kind |-> "json", version |-> PeerRegistryCacheVersion, peers |-> sv.cache]

\* C24: the peers section a Save writes equals the persistable state of
\* the registry at one single instant between the call and the return:
\* from the end of the range loop until the return it is the persistable
\* state of the registry as it is (every mutator waits), so it never
\* combines one peer's counters from before an update with another
\* peer's from after it; during the loop every record visited so far is
\* in it as the registry holds it.
C24_SnapshotOfOneInstant ==
    \A s \in DOMAIN savers :
        /\ savers[s].pc \in {"named", "opened", "written"} =>
              SnapshotOf(savers[s]) \in PeerRegistryCaches(peers)
        /\ savers[s].pc = "copying" =>
              \A p \in (DOMAIN peers) \ savers[s].todo :
                  ShouldCache(peers[p]) =>
                      /\ CoerceToValidUTF8(p) \in DOMAIN savers[s].cache
                      /\ savers[s].cache[CoerceToValidUTF8(p)] =
                             ToCachedPeerMetrics(peers[p])

\* Goroutine 1 has written its temp file and not returned: its snapshot
\* holds the two attempts of "pA" and the one attempt of "pB" recorded
\* before its call, as the registry still does.
C24_Witness ==
    /\ savers[1].pc = "written"
    /\ DOMAIN savers[1].cache = {"pA", "pB"}
    /\ savers[1].cache["pA"].CatchupAttempts = 2
    /\ savers[1].cache["pB"].CatchupAttempts = 1
    /\ peers["pA"].CatchupAttempts = 2
    /\ peers["pB"].CatchupAttempts = 1
    /\ tempFiles[savers[1].temp] = SnapshotOf(savers[1])

\* Goroutine s returns from a rename that failed.
RenameFails(s) ==
    /\ savers[s].pc = "written"
    /\ savers'[s].pc = "done"
    /\ savers'[s].err # "nil"

C25_Step ==
    \A s \in DOMAIN savers :
        RenameFails(s) =>
            /\ savers'[s].err = "failed to finalize"
            /\ savers[s].temp \notin DOMAIN tempFiles'
            /\ file' = file
            /\ peers' = peers

\* C25: if the rename of the temp file onto the target fails, Save
\* deletes its temp file, returns an error, and leaves both the
\* previously saved target file and the in-memory registry unchanged.
C25_FailedRenameLeavesTarget == [][C25_Step]_vars

\* Goroutine 1 saved the registry of "pA" with one attempt; a second
\* attempt was recorded and the rename of goroutine 2, whose temp file
\* existed, has failed: no temp file is left, the target is still the
\* first snapshot and the registry still has the two attempts.
C25_Witness ==
    /\ savers[1].pc = "done"
    /\ savers[1].err = "nil"
    /\ savers[2].pc = "done"
    /\ savers[2].err = "failed to finalize"
    /\ savers[2].fault
    /\ "pA" \in DOMAIN savers[2].cache
    /\ savers[2].cache["pA"].CatchupAttempts = 2
    /\ tempFiles = EmptyMap
    /\ file = SnapshotOf(savers[1])
    /\ "pA" \in DOMAIN file.peers
    /\ file.peers["pA"].CatchupAttempts = 1
    /\ peers["pA"].CatchupAttempts = 2

\* ---------------------------------------------------------------------
\* The reports of the validation server, one by one
\* ---------------------------------------------------------------------

\* The peer ids a catchup reports about: a known peer and the empty id.
ReportedPeerIds == CatchupPeers \cup {""}

\* The validation server with or without a P2P client and with or
\* without local peer metrics, reporting about one of the peer ids; each
\* report is remembered.
InitFacade ==
    /\ CacheNew
    /\ now = 1
    /\ peers = [p \in CatchupPeers |-> NewPeerInfo]
    /\ file = NoFile
    /\ lastErr = NoCall
    /\ NoSaves
    /\ server = NoServer
    /\ loader = NoLoader
    /\ reads = NoRead
    /\ wait = NoWait
    /\ catchup \in {[NoCatchup EXCEPT !.client = c, !.local = l, !.traced = TRUE] :
                       c \in BOOLEAN, l \in BOOLEAN}
    /\ localMetrics = EmptyMap
    /\ reports \in {[p \in {q} |->
                      [catchups |-> 0, validated |-> 0, lostAttempts |-> 0]] :
                    q \in ReportedPeerIds}
    /\ selection = NoSelection
    /\ recorders = EmptyMap
    /\ overrides = EmptyMap

NextFacade ==
    \/ \E p \in ReportedPeerIds, err \in RpcResults : reportCatchupAttempt(p, err)
    \/ \E ms \in DurationsMs, err \in RpcResults : reportCatchupSuccess(ms, err)
    \/ \E err \in RpcResults : reportCatchupFailure(err)
    \/ \E err \in RpcResults : reportCatchupMalicious(err)
    \/ CatchupDone

SpecFacade == InitFacade /\ [][NextFacade]_vars

\* The step is a report of the kind op: the catchup moves on as after
\* that report and the history names it.
ReportStep(op) ==
    /\ catchup'.last.op = op
    /\ CASE op = "attempt" -> catchup.pc = "idle" /\ catchup'.pc = "running"
         [] op = "success" -> catchup'.blocks = catchup.blocks + 1
         [] op = "failure" -> catchup.pc = "running" /\ catchup'.pc = "idle"
         [] op = "malicious" -> ~catchup.flagged /\ catchup'.flagged

\* The counter a report of the kind op adds to, in the registry record and
\* in the local counters.
RegistryCount(info, op) ==
    CASE op = "success" -> info.CatchupSuccesses
      [] op = "failure" -> info.CatchupFailures
      [] op = "malicious" -> info.CatchupMaliciousCount

LocalCount(m, p, op) ==
    IF p \notin DOMAIN m THEN 0
    ELSE CASE op = "success" -> m[p].successes
           [] op = "failure" -> m[p].failures
           [] op = "malicious" -> m[p].malicious

C27_Step ==
    LET p == catchup'.peer
        call == catchup'.last.call
    IN  /\ ReportStep("attempt") =>
              /\ localMetrics' = localMetrics
              /\ (p = "" \/ call # "nil") => peers' = peers
        /\ \A op \in {"success", "failure", "malicious"} :
              ReportStep(op) =>
                  /\ p = "" => (peers' = peers /\ localMetrics' = localMetrics)
                  /\ (p # "" /\ call = "nil") =>
                        /\ RegistryCount(peers'[p], op) = RegistryCount(peers[p], op) + 1
                        /\ localMetrics' = localMetrics
                  /\ (p # "" /\ call # "nil" /\ catchup.local) =>
                        /\ peers' = peers
                        /\ LocalCount(localMetrics', p, op) =
                               LocalCount(localMetrics, p, op) + 1
                  /\ (p # "" /\ call # "nil" /\ ~catchup.local) =>
                        (peers' = peers /\ localMetrics' = localMetrics)

\* C27: every report of the Recorder Facade returns normally whatever the
\* call to the P2P service returns, and each success, failure or malicious
\* report with a non-empty peer id updates exactly one sink: the registry
\* when the call to it returns nil, otherwise (no client, or the call
\* failed) the local counters when the server has them, never both; a
\* report with an empty peer id updates nothing.
C27_ReportUpdatesOneSink == [][C27_Step]_vars

\* A catchup toward "pA" is running after three reports: the success of
\* the first block reached the registry, the call for the second failed
\* and was counted locally, and the validation went on to report the peer
\* malicious, again locally.
C27_Witness ==
    /\ catchup.pc = "running"
    /\ catchup.peer = "pA"
    /\ catchup.last = [op |-> "malicious", call |-> "error"]
    /\ peers["pA"].CatchupSuccesses = 1
    /\ peers["pA"].CatchupMaliciousCount = 0
    /\ "pA" \in DOMAIN localMetrics
    /\ localMetrics["pA"].successes = 1
    /\ localMetrics["pA"].malicious = 1

\* ---------------------------------------------------------------------
\* The gRPC handlers of the P2P service over the registry
\* ---------------------------------------------------------------------

\* The five handlers that record into the registry.
ReportingRpcs ==
    {"RecordCatchupAttempt", "RecordCatchupSuccess", "RecordCatchupFailure",
     "RecordCatchupMalicious", "UpdateCatchupReputation"}

\* req.PeerId: the text form of a peer id, or a string that is none.
RequestPeerIds == {IDString("pA"), "not-a-peer-id"}

\* The requests: peer id, and the duration and score two of the calls take.
Requests == [PeerId : RequestPeerIds, DurationMs : DurationsMs, Score : {70}]

\* peer.Decode(req.PeerId) returns no error.
Decodable(str) == \E p \in PeerIds : IDString(p) = str

\* peer.Decode(req.PeerId)
Decode(str) == CHOOSE p \in PeerIds : IDString(p) = str

\* The error each failing check of a handler returns.
RegistryNotInitialized == "ServiceError"

InvalidPeerID == "ProcessingError"

\* s.peerRegistry.<rpc>(peerID, ...) on the record of the peer.
RegistryOperation(rpc, info, req, t) ==
    CASE rpc = "RecordCatchupAttempt" -> AfterAttempt(info, t)
      [] rpc = "RecordCatchupSuccess" ->
            AfterSuccess(info, req.DurationMs * Millisecond, t)
      [] rpc = "RecordCatchupFailure" -> AfterFailure(info, t)
      [] rpc = "RecordCatchupMalicious" -> AfterMalicious(info, t)
      [] rpc = "UpdateCatchupReputation" ->
            [info EXCEPT !.CatchupReputationScore =
                             ClampScore(req.Score * ScorePoint)]

\* The counter of the call is below the bound of the model.
WithinBounds(rpc, info) ==
    CASE rpc = "RecordCatchupAttempt" -> info.CatchupAttempts < MaxCount
      [] rpc = "RecordCatchupSuccess" -> info.CatchupSuccesses < MaxCount
      [] rpc = "RecordCatchupFailure" -> info.CatchupFailures < MaxCount
      [] rpc = "RecordCatchupMalicious" -> info.CatchupMaliciousCount < MaxCount
      [] rpc = "UpdateCatchupReputation" -> TRUE

\* Server.RecordCatchupAttempt / Success / Failure / Malicious and
\* Server.UpdateCatchupReputation: the registry check, the decoding of the
\* peer id, the registry call, the response. ok is the response's Ok.
ServerReport(rpc, req) ==
    /\ IF ~server.registry
       THEN /\ server' = [server EXCEPT !.resp =
                            [rpc |-> rpc, peerId |-> req.PeerId, ok |-> FALSE,
                             err |-> RegistryNotInitialized, peers |-> << >>]]
            /\ UNCHANGED peers
       ELSE IF ~Decodable(req.PeerId)
       THEN /\ server' = [server EXCEPT !.resp =
                            [rpc |-> rpc, peerId |-> req.PeerId, ok |-> FALSE,
                             err |-> InvalidPeerID, peers |-> << >>]]
            /\ UNCHANGED peers
       ELSE /\ WriteLockFree
            /\ Decode(req.PeerId) \in DOMAIN peers
            /\ WithinBounds(rpc, peers[Decode(req.PeerId)])
            /\ peers' = [peers EXCEPT ![Decode(req.PeerId)] =
                                         RegistryOperation(rpc, @, req, now)]
            /\ server' = [server EXCEPT !.resp =
                            [rpc |-> rpc, peerId |-> req.PeerId, ok |-> TRUE,
                             err |-> "nil", peers |-> << >>]]
    /\ UNCHANGED <<file, lastErr, now, cacheVars, valVars, saveVars, loadVars, wait>>

\* Server.GetPeersForCatchup: the registry's list as messages. The
\* response has no Ok; ok tells that the error is nil.
ServerGetPeersForCatchup ==
    /\ IF ~server.registry
       THEN server' = [server EXCEPT !.resp =
                         [rpc |-> "GetPeersForCatchup", peerId |-> "", ok |-> FALSE,
                          err |-> RegistryNotInitialized, peers |-> << >>]]
       ELSE \E list \in GetPeersForCatchupResponses(peers) :
               server' = [server EXCEPT !.resp =
                            [rpc |-> "GetPeersForCatchup", peerId |-> "", ok |-> TRUE,
                             err |-> "nil", peers |-> list]]
    /\ UNCHANGED <<regVars, now, cacheVars, valVars, saveVars, loadVars, wait>>

\* timeToUnix: 0 for the zero time, else t.Unix().
timeToUnix(t) == IF t = 0 THEN 0 ELSE t

\* One PeerRegistryInfo message of GetPeerRegistry.
PeerRegistryInfo(m, p) ==
    [Id |-> IDString(p),
     Height |-> m[p].Height,
     BlockHash |-> m[p].BlockHash,
     DataHubUrl |-> m[p].DataHubURL,
     IsHealthy |-> m[p].IsHealthy,
     IsBanned |-> m[p].IsBanned,
     InteractionAttempts |-> m[p].CatchupAttempts,
     InteractionSuccesses |-> m[p].CatchupSuccesses,
     InteractionFailures |-> m[p].CatchupFailures,
     LastInteractionAttempt |-> timeToUnix(m[p].CatchupLastAttempt),
     LastInteractionSuccess |-> timeToUnix(m[p].CatchupLastSuccess),
     LastInteractionFailure |-> timeToUnix(m[p].CatchupLastFailure),
     ReputationScore |-> m[p].CatchupReputationScore,
     MaliciousCount |-> m[p].CatchupMaliciousCount,
     AvgResponseTimeMs |-> m[p].CatchupAvgResponseTime \div Millisecond]

\* Server.GetPeerRegistry: every record as a message, in the order
\* GetAllPeers returns them; an empty list and no error without a registry.
ServerGetPeerRegistry ==
    /\ IF ~server.registry
       THEN server' = [server EXCEPT !.resp =
                         [rpc |-> "GetPeerRegistry", peerId |-> "", ok |-> TRUE,
                          err |-> "nil", peers |-> << >>]]
       ELSE \E r \in Arrangements(DOMAIN peers) :
               server' = [server EXCEPT !.resp =
                            [rpc |-> "GetPeerRegistry", peerId |-> "", ok |-> TRUE,
                             err |-> "nil",
                             peers |-> [i \in DOMAIN r |-> PeerRegistryInfo(peers, r[i])]]]
    /\ UNCHANGED <<regVars, now, cacheVars, valVars, saveVars, loadVars, wait>>

\* The server before and after its registry is set; the registry holds
\* one peer with a DataHub URL.
InitServer ==
    /\ CacheNew
    /\ now = 1
    /\ server \in {[NoServer EXCEPT !.registry = r] : r \in BOOLEAN}
    /\ loader = NoLoader
    /\ reads = NoRead
    /\ wait = NoWait
    /\ peers = IF server.registry
               THEN ("pA" :> [NewPeerInfo EXCEPT !.DataHubURL = "http://a"])
               ELSE EmptyMap
    /\ file = NoFile
    /\ lastErr = NoCall
    /\ NoSaves
    /\ ValidationIdle

NextServer ==
    \/ \E rpc \in ReportingRpcs, req \in Requests : ServerReport(rpc, req)
    \/ ServerGetPeersForCatchup
    \/ ServerGetPeerRegistry

SpecServer == InitServer /\ [][NextServer]_vars

\* The step is a reporting call whose peer id does not decode, on a
\* server whose registry is set.
UndecodableReport ==
    /\ server' # server
    /\ server.registry
    /\ server'.resp.rpc \in ReportingRpcs
    /\ ~Decodable(server'.resp.peerId)

C28_Step ==
    UndecodableReport =>
        /\ server'.resp.err = "InvalidArgumentError"
        /\ ~server'.resp.ok
        /\ peers' = peers

\* C28: a reporting RPC (RecordCatchupAttempt / Success / Failure /
\* Malicious, UpdateCatchupReputation) whose peer-id string fails to
\* decode returns an invalid-argument error with ok = false and performs
\* no registry operation: the registry is unchanged and no record is
\* created for that string.
C28_UndecodableIdIsInvalidArgument == [][C28_Step]_vars

\* C29: while the registry is uninitialized, every operation of the
\* reporting RPC surface (the five mutating calls, GetPeersForCatchup and
\* GetPeerRegistry) returns a service-unavailable error rather than a
\* success response, whatever the peer id of the request.
C29_UninitializedIsUnavailable ==
    (~server.registry /\ server.resp.rpc # "none") =>
        (server.resp.err = RegistryNotInitialized /\ ~server.resp.ok)

\* ---------------------------------------------------------------------
\* ResetReputation through the HTTP handler
\* ---------------------------------------------------------------------

\* req.PeerID: the empty string for all peers, or the text of a peer id.
ResetPeerIds == {"", IDString("pA"), IDString("pB")}

\* What the handler meets: no P2P client, a failing call, a call that
\* returns the count.
ResetOutcomes == {"P2P service not available", "Failed to reset reputation", "nil"}

\* The records a reset request names: all for the empty string, else the
\* record of that peer if the registry holds one.
ResetTargets(m, peerID) ==
    IF peerID = "" THEN DOMAIN m
    ELSE {p \in DOMAIN m : IDString(p) = peerID}

\* The registry after pr.ResetReputation(peerID).
PeersAfterReset(m, peerID) ==
    [p \in DOMAIN m |->
        IF p \in ResetTargets(m, peerID) THEN AfterReset(m[p]) ELSE m[p]]

\* HTTP.ResetReputation: the client check, the call of the P2P service,
\* the response {ok, peers_reset} or the error.
HTTPResetReputation(peerID, outcome) ==
    /\ outcome = "nil" => WriteLockFree
    /\ peers' = IF outcome = "nil" THEN PeersAfterReset(peers, peerID) ELSE peers
    /\ server' = [server EXCEPT !.resp =
                    [rpc |-> "ResetReputation", peerId |-> peerID,
                     ok |-> (outcome = "nil"), err |-> outcome, peers |-> << >>,
                     PeersReset |-> IF outcome = "nil"
                                    THEN Cardinality(ResetTargets(peers, peerID))
                                    ELSE 0]]
    /\ UNCHANGED <<file, lastErr, now, cacheVars, valVars, saveVars, loadVars, wait>>

\* Two peers with URL, height and catchup history, reset one by one or
\* together.
InitReset ==
    /\ CacheNew
    /\ now = 1
    /\ peers = [p \in SavedPeers |-> NewPeerInfo]
    /\ file = NoFile
    /\ lastErr = NoCall
    /\ NoSaves
    /\ server = NoServer
    /\ loader = NoLoader
    /\ reads = NoRead
    /\ wait = NoWait
    /\ ValidationIdle

NextReset ==
    \/ UpdateDataHubURL("pA", "http://a")
    \/ \E height \in 1..MaxHeight : UpdateHeight("pB", height)
    \/ \E p \in SavedPeers : RecordCatchupAttempt(p)
    \/ \E ms \in DurationsMs : RecordCatchupSuccess("pA", ms)
    \/ RecordCatchupFailure("pB")
    \/ RecordCatchupMalicious("pB")
    \/ \E peerID \in ResetPeerIds, outcome \in ResetOutcomes :
          HTTPResetReputation(peerID, outcome)

SpecReset == InitReset /\ [][NextReset]_vars

\* The nine reputation fields of the record are zero.
ReputationZeroed(info) ==
    /\ info.CatchupAttempts = 0
    /\ info.CatchupSuccesses = 0
    /\ info.CatchupFailures = 0
    /\ info.CatchupMaliciousCount = 0
    /\ info.CatchupLastAttempt = 0
    /\ info.CatchupLastSuccess = 0
    /\ info.CatchupLastFailure = 0
    /\ info.CatchupAvgResponseTime = 0
    /\ info.CatchupReputationScore = 0

\* The fields a reset does not name are those of the record before.
OtherFieldsKept(after, before) ==
    /\ after.Height = before.Height
    /\ after.BlockHash = before.BlockHash
    /\ after.DataHubURL = before.DataHubURL
    /\ after.IsHealthy = before.IsHealthy
    /\ after.IsBanned = before.IsBanned

Limb == 65536

IntOf(hi, lo) == [hi |-> hi, lo |-> lo]

\* The sum of two integers, as mathematical integers.
IntPlus(a, b) ==
    LET lo == a.lo + b.lo
    IN  [hi |-> a.hi + b.hi + (lo \div Limb), lo |-> lo % Limb]

\* a < b, as mathematical integers.
IntLess(a, b) == a.hi < b.hi \/ (a.hi = b.hi /\ a.lo < b.lo)

\* Go's conversion uint32(x): the low 32 bits of x.
Uint32(x) == [hi |-> x.hi % Limb, lo |-> x.lo]

\* uint32 addition: the sum modulo 2^32.
Uint32Plus(a, b) == Uint32(IntPlus(a, b))

MaxUint32 == IntOf(Limb - 1, Limb - 1)

\* The heights and the tolerances a call is made with and a poll observes.
Heights == {IntOf(0, 0), IntOf(0, 1), IntOf(0, 5), MaxUint32}

BlocksBehind == {IntOf(-1, Limb - 1), IntOf(0, 0), IntOf(0, 1)}

\* What GetBlockAssemblyState returns: an error, or a state with its height.
AssemblyStates ==
    {[err |-> TRUE, CurrentHeight |-> IntOf(0, 0)]}
        \cup {[err |-> FALSE, CurrentHeight |-> h] : h \in Heights}

\* Line 53: blockAssemblyStatus.CurrentHeight+uint32(maxBlocksBehind) < blockHeight
BehindTarget(currentHeight, maxBlocksBehind, blockHeight) ==
    IntLess(Uint32Plus(currentHeight, Uint32(maxBlocksBehind)), blockHeight)

\* The function handed to retry.Retry (lines 47-58): the result of one poll.
PollResult(state, maxBlocksBehind, blockHeight) ==
    IF state.err
    THEN [height |-> IntOf(0, 0), err |-> "failed to get block assembly state"]
    ELSE IF BehindTarget(state.CurrentHeight, maxBlocksBehind, blockHeight)
         THEN [height |-> IntOf(0, 0), err |-> "block assembly is behind"]
         ELSE [height |-> state.CurrentHeight, err |-> "nil"]

\* retry.WithRetryCount(45)
RetryCount == 45

NoPoll == [height |-> IntOf(0, 0), err |-> "none"]

\* WaitForBlockAssemblyReady returns an error and no other value.
Return(err) == [err |-> err, values |-> << >>]

\* The call as it is entered: its arguments, nothing polled yet.
WaitCalled(client, blockHeight, maxBlocksBehind) ==
    [pc |-> "called", client |-> client, blockHeight |-> blockHeight,
     maxBlocksBehind |-> maxBlocksBehind, ctx |-> "live", polls |-> 0,
     observed |-> [err |-> FALSE, CurrentHeight |-> IntOf(0, 0)],
     result |-> NoPoll, ret |-> Return("none")]

\* Lines 40-43: without a client the call returns nil at once; else it
\* enters retry.Retry.
WaitForBlockAssemblyReady ==
    /\ wait.pc = "called"
    /\ wait' = IF wait.client
               THEN [wait EXCEPT !.pc = "retry"]
               ELSE [wait EXCEPT !.pc = "done", !.ret = Return("nil")]
    /\ UNCHANGED <<regVars, now, cacheVars, valVars, saveVars, server, loadVars>>

\* ctx.Done() is never seen closed.
CtxNeverDone(w) == FALSE

\* ctx.Done() is closed.
CtxDone(w) == w.ctx = "cancelled"

\* The budget allows one attempt more.
BudgetSpentLate(w) == w.polls >= RetryCount + 1

\* The retry budget is used up.
BudgetSpent(w) == w.polls >= RetryCount

\* One round of the retry loop: the function is called; a nil error ends the
\* call, any error counts as one attempt and is followed by the backoff.
RetryPoll(state) ==
    /\ wait.pc = "retry"
    /\ ~CtxDone(wait)
    /\ ~BudgetSpent(wait)
    /\ LET result == PollResult(state, wait.maxBlocksBehind, wait.blockHeight)
       IN  wait' = [wait EXCEPT
                       !.polls = @ + 1,
                       !.observed = state,
                       !.result = result,
                       !.pc = IF result.err = "nil" THEN "done" ELSE "backoff",
                       !.ret = IF result.err = "nil" THEN Return("nil") ELSE @]
    /\ UNCHANGED <<regVars, now, cacheVars, valVars, saveVars, server, loadVars>>

\* The backoff has elapsed: next round.
RetryBackoffElapsed ==
    /\ wait.pc = "backoff"
    /\ ~CtxDone(wait)
    /\ wait' = [wait EXCEPT !.pc = "retry"]
    /\ UNCHANGED <<regVars, now, cacheVars, valVars, saveVars, server, loadVars>>

\* The loop ends because every attempt failed: the error is returned.
RetryExhausted ==
    /\ wait.pc = "retry"
    /\ BudgetSpent(wait)
    /\ wait' = [wait EXCEPT !.pc = "done", !.ret = Return("retries exhausted")]
    /\ UNCHANGED <<regVars, now, cacheVars, valVars, saveVars, server, loadVars>>

\* The loop ends because ctx is done, at the head of a round or during the
\* backoff.
RetryCancelled ==
    /\ \/ wait.pc = "retry" /\ ~BudgetSpent(wait)
       \/ wait.pc = "backoff"
    /\ CtxDone(wait)
    /\ wait' = [wait EXCEPT !.pc = "done", !.ret = Return("context cancelled")]
    /\ UNCHANGED <<regVars, now, cacheVars, valVars, saveVars, server, loadVars>>

\* The caller cancels ctx while the call runs.
CtxCancel ==
    /\ wait.pc \in {"called", "retry", "backoff"}
    /\ wait.ctx = "live"
    /\ wait' = [wait EXCEPT !.ctx = "cancelled"]
    /\ UNCHANGED <<regVars, now, cacheVars, valVars, saveVars, server, loadVars>>

InitWait ==
    /\ CacheNew
    /\ now = 1
    /\ peers = EmptyMap
    /\ file = NoFile
    /\ lastErr = NoCall
    /\ NoSaves
    /\ server = NoServer
    /\ loader = NoLoader
    /\ reads = NoRead
    /\ ValidationIdle
    /\ wait \in {WaitCalled(c, h, b) :
                    c \in BOOLEAN, h \in Heights, b \in BlocksBehind}

\* The steps of the call itself.
WaitStep ==
    \/ WaitForBlockAssemblyReady
    \/ \E state \in AssemblyStates : RetryPoll(state)
    \/ RetryBackoffElapsed
    \/ RetryExhausted
    \/ RetryCancelled

NextWait ==
    \/ WaitStep
    \/ CtxCancel

SpecWait == InitWait /\ [][NextWait]_vars

\* The goroutine of the call is scheduled and its backoff timer fires.
SpecWaitFair == InitWait /\ [][NextWait]_vars /\ WF_vars(WaitStep)

\* ---------------------------------------------------------------------
\* C32: the verdict of a poll against the sum of mathematical integers
\* ---------------------------------------------------------------------
\* currentHeight + maxBlocksBehind >= blockHeight, as mathematical integers.
MathReady(currentHeight, maxBlocksBehind, blockHeight) ==
    ~IntLess(IntPlus(currentHeight, maxBlocksBehind), blockHeight)

\* The last poll got a state from the block assembly.
PolledState == wait.result.err # "none" /\ ~wait.observed.err

\* The sum of the last poll stays within uint32 and the tolerance is not
\* negative.
PollInRange ==
    /\ wait.maxBlocksBehind.hi >= 0
    /\ ~IntLess(MaxUint32, IntPlus(wait.observed.CurrentHeight, wait.maxBlocksBehind))

\* C32: a poll that observed a height succeeds exactly when currentHeight +
\* maxBlocksBehind >= blockHeight as mathematical integers, whatever the
\* uint32 heights and the int tolerance.
C32_PollVerdictIsMathematical ==
    PolledState =>
        (wait.result.err = "nil"
            <=> MathReady(wait.observed.CurrentHeight, wait.maxBlocksBehind,
                          wait.blockHeight))

\* Within the range of uint32 the verdict is the mathematical one.
PollVerdictInRange ==
    (PolledState /\ PollInRange) =>
        (wait.result.err = "nil"
            <=> MathReady(wait.observed.CurrentHeight, wait.maxBlocksBehind,
                          wait.blockHeight))

\* A poll was not ready although the mathematical sum reaches the target.
WrappedSumNotReady ==
    /\ PolledState
    /\ wait.result.err = "block assembly is behind"
    /\ MathReady(wait.observed.CurrentHeight, wait.maxBlocksBehind, wait.blockHeight)

\* A poll was ready although the mathematical sum is below the target.
NegativeToleranceReady ==
    /\ PolledState
    /\ wait.result.err = "nil"
    /\ ~MathReady(wait.observed.CurrentHeight, wait.maxBlocksBehind, wait.blockHeight)

\* ---------------------------------------------------------------------
\* C33: the call terminates within its retry budget
\* ---------------------------------------------------------------------
WaitDone == wait.pc = "done"

\* How a finished call relates to its polls.
WaitOutcome ==
    /\ wait.polls <= RetryCount
    /\ (wait.pc \in {"retry", "backoff"}) => wait.result.err # "nil"
    /\ (WaitDone /\ wait.ret.err = "nil" /\ ~wait.client) => wait.polls = 0
    /\ (WaitDone /\ wait.ret.err = "nil" /\ wait.client) =>
            /\ wait.polls >= 1
            /\ ~wait.observed.err
            /\ ~BehindTarget(wait.observed.CurrentHeight, wait.maxBlocksBehind,
                             wait.blockHeight)
            /\ wait.result = [height |-> wait.observed.CurrentHeight, err |-> "nil"]
    /\ (WaitDone /\ wait.ret.err = "retries exhausted") =>
            /\ wait.polls = RetryCount
            /\ wait.result.err \in {"failed to get block assembly state",
                                    "block assembly is behind"}
    /\ WaitDone => wait.ret.values = << >>

\* A poll that fails, by a getState error or by a height behind the target,
\* uses one attempt and is followed by the backoff, not by the return.
FailedPollStep ==
    (wait'.polls # wait.polls /\ wait'.result.err # "nil") =>
        /\ wait'.polls = wait.polls + 1
        /\ wait'.pc = "backoff"
        /\ wait'.ret = wait.ret

\* C33 (as amended): the call terminates; without a client it returns nil
\* without polling; with one it returns nil, and no height, at the first
\* poll whose check passes; after 45 failed polls it returns an error
\* instead of polling further; a getState error uses an attempt like a
\* height behind the target and does not end the call.
C33_WaitTerminates ==
    /\ <>WaitDone
    /\ []WaitOutcome
    /\ [][FailedPollStep]_vars

\* The 45th poll failed by a getState error and the call returned the error
\* of the exhausted budget.
C33_Witness ==
    /\ WaitDone
    /\ wait.ret.err = "retries exhausted"
    /\ wait.polls = RetryCount
    /\ wait.observed.err

\* C33 (as stated): a successful call returns the height it observed at the
\* poll that met the condition.
C33_SuccessReturnsObservedHeight ==
    (WaitDone /\ wait.ret.err = "nil") =>
        /\ wait.polls >= 1
        /\ wait.ret.values = <<wait.observed.CurrentHeight>>

\* The second poll met the condition after a first one that failed.
SecondPollReady ==
    /\ WaitDone
    /\ wait.ret.err = "nil"
    /\ wait.polls = 2

\* ---------------------------------------------------------------------
\* C34: a cancelled ctx ends the retry loop
\* ---------------------------------------------------------------------
\* The retry loop is running and ctx is cancelled.
CancelledInLoop == wait.ctx = "cancelled" /\ wait.pc \in {"retry", "backoff"}

C34_Step ==
    CancelledInLoop =>
        /\ wait'.polls = wait.polls
        /\ wait'.observed = wait.observed
        /\ (wait' # wait) => wait'.pc = "done"

NextCacheGeneration ==
    \/ BeginQuery("q1", "k1")
    \/ BeginQuery("q2", "k2")
    \/ \E q \in Queriers : Get(q)
    \/ \E q \in Queriers : SetCheck(q)
    \/ \E q \in Queriers : SetWrite(q, 0)
    \/ \E d \in Deleters : DeleteAllClear(d)
    \/ \E d \in Deleters : DeleteAllIncrement(d)
    \/ StopCAS("s1")
    \/ StopCache("s1")

SpecCacheGeneration == InitCache /\ [][NextCacheGeneration]_vars

\* The step is the first half of a DeleteAll: gc.cache.DeleteAll().
DeleteAllClears == \E d \in Deleters : del[d].pc = "idle" /\ del'[d].pc = "cleared"

\* The step is the second half of a DeleteAll, after which it returns.
DeleteAllReturns == \E d \in Deleters : del[d].pc = "cleared" /\ del'[d].pc = "idle"

C35_Step ==
    /\ DeleteAllClears => items' = EmptyMap
    /\ DeleteAllReturns => generation' = generation + 1
    /\ ~DeleteAllReturns => generation' = generation
    /\ generation' >= generation

\* C35: DeleteAll removes the entries of every key and raises the
\* generation by exactly one; no step of BeginQuery, Get, Set or Stop
\* changes the generation; in every reachable state the generation is the
\* number of DeleteAll calls that returned, and it never decreases.
C35_GenerationCountsDeleteAll ==
    /\ [](generation = hist.deletesDone)
    /\ [][C35_Step]_vars

\* Two invalidations have returned on a stopped cache that had accepted a
\* write on each key.
C35_Witness ==
    /\ generation = 2
    /\ stopped
    /\ qry["q1"].res = "true" /\ qry["q1"].key = "k1"
    /\ qry["q2"].res = "true" /\ qry["q2"].key = "k2"
    /\ items = EmptyMap

\* =====================================================================
\* isPeerMalicious and isPeerBad (blockvalidation/peer_metrics_helpers.go)
\* =====================================================================
\* PeerCatchupMetrics.IsMalicious and IsBad: predicates of the local
\* counters of one peer, false for counters that were just created.
IsMalicious(metric) == metric.malicious > 0

IsBad(metric) == metric.failures + metric.malicious > metric.successes

\* What isPeerMalicious(ctx, peerID) returns.
PeerIsMalicious(p, local, m) ==
    /\ p # ""
    /\ local
    /\ IsMalicious(GetOrCreatePeerMetrics(m, p))

\* What isPeerBad(peerID) returns.
PeerIsBad(p, local, m) ==
    /\ p # ""
    /\ local
    /\ IsBad(GetOrCreatePeerMetrics(m, p))

\* u.peerMetrics after GetOrCreatePeerMetrics(peerID) was called on it.
LocalAfterLookup(p, local, m) ==
    IF p # "" /\ local THEN MapSet(m, p, GetOrCreatePeerMetrics(m, p)) ELSE m

isPeerMalicious(p) ==
    /\ catchup' = [catchup EXCEPT !.verdict =
                     [op |-> "isPeerMalicious", peer |-> p,
                      answer |-> PeerIsMalicious(p, catchup.local, localMetrics)]]
    /\ localMetrics' = LocalAfterLookup(p, catchup.local, localMetrics)
    /\ UNCHANGED <<regVars, reports, selection, recorders,
                 now, cacheVars, overrides, saveVars, server, loadVars, wait>>

isPeerBad(p) ==
    /\ catchup' = [catchup EXCEPT !.verdict =
                     [op |-> "isPeerBad", peer |-> p,
                      answer |-> PeerIsBad(p, catchup.local, localMetrics)]]
    /\ localMetrics' = LocalAfterLookup(p, catchup.local, localMetrics)
    /\ UNCHANGED <<regVars, reports, selection, recorders,
                 now, cacheVars, overrides, saveVars, server, loadVars, wait>>

\* The validation server with or without a P2P client and with or without
\* local peer metrics; one peer, known to the registry.
InitVerdict ==
    /\ CacheNew
    /\ now = 1
    /\ peers = [p \in CatchupPeers |-> NewPeerInfo]
    /\ file = NoFile
    /\ lastErr = NoCall
    /\ NoSaves
    /\ server = NoServer
    /\ loader = NoLoader
    /\ reads = NoRead
    /\ wait = NoWait
    /\ catchup \in {[NoCatchup EXCEPT !.client = c, !.local = l] :
                       c \in BOOLEAN, l \in BOOLEAN}
    /\ localMetrics = EmptyMap
    /\ reports = [p \in CatchupPeers |->
                    [catchups |-> 0, validated |-> 0, lostAttempts |-> 0]]
    /\ selection = NoSelection
    /\ recorders = EmptyMap
    /\ overrides = EmptyMap

\* Catchups with their reports, and the two questions asked at any time.
NextVerdict ==
    \/ \E p \in CatchupPeers : reportCatchupAttempt(p, "nil")
    \/ \E ms \in DurationsMs, err \in RpcResults : reportCatchupSuccess(ms, err)
    \/ \E err \in RpcResults : reportCatchupFailure(err)
    \/ \E err \in RpcResults : reportCatchupMalicious(err)
    \/ CatchupDone
    \/ \E p \in CatchupPeers \cup {""} : isPeerMalicious(p)
    \/ \E p \in CatchupPeers : isPeerBad(p)

SpecVerdict == InitVerdict /\ [][NextVerdict]_vars

\* ---------------------------------------------------------------------
\* C37: the two questions are answered from the local counters alone
\* ---------------------------------------------------------------------
\* The counters of the local cache, zero for a peer it does not hold.
LocalCounters(m, p) == GetOrCreatePeerMetrics(m, p)

C37_Step ==
    \A p \in CatchupPeers :
        LET malicious == PeerIsMalicious(p, catchup.local, localMetrics)
            maliciousAfter == PeerIsMalicious(p, catchup'.local, localMetrics')
            bad == PeerIsBad(p, catchup.local, localMetrics)
            badAfter == PeerIsBad(p, catchup'.local, localMetrics')
        IN  /\ (peers' # peers) => (maliciousAfter = malicious /\ badAfter = bad)
            /\ (maliciousAfter # malicious \/ badAfter # bad) =>
                   /\ LocalCounters(localMetrics', p) # LocalCounters(localMetrics, p)
                   /\ peers' = peers
            /\ (~malicious /\ maliciousAfter) =>
                   /\ ~catchup.flagged /\ catchup'.flagged
                   /\ LocalCounters(localMetrics', p).malicious =
                          LocalCounters(localMetrics, p).malicious + 1

\* The answers last given are those of the local counters: a peer without
\* local malicious count is not malicious, whatever the registry holds.
VerdictFromLocalCounters ==
    /\ (catchup.verdict.op = "isPeerMalicious" /\ catchup.verdict.answer) =>
           /\ catchup.local
           /\ LocalCounters(localMetrics, catchup.verdict.peer).malicious > 0
    /\ (catchup.verdict.op = "isPeerBad" /\ catchup.verdict.answer) =>
           /\ catchup.local
           /\ LocalCounters(localMetrics, catchup.verdict.peer)
                  # LocalCounters(EmptyMap, catchup.verdict.peer)

MaliciousByFallback ==
    /\ catchup.verdict = [op |-> "isPeerMalicious", peer |-> "pA", answer |-> TRUE]
    /\ peers["pA"].CatchupMaliciousCount = 0

\* =====================================================================
\* A registry restored in a new process
\* =====================================================================
\* Two peers connect; "pA" advertises a DataHub URL, both are recorded
\* into; the registry is saved, the node restarts and loads the snapshot;
\* the P2P service is asked for catchup peers at any time.
NextRestored ==
    \/ \E p \in SavedPeers : AddPeer(p)
    \/ UpdateDataHubURL("pA", "http://a")
    \/ RecordCatchupAttempt("pB")
    \/ RecordCatchupMalicious("pA")
    \/ RecordCatchupMalicious("pB")
    \/ SavePeerRegistryCache("nil")
    \/ LoadPeerRegistryCache
    \/ Restart
    \/ ServerGetPeersForCatchup

SpecRestored == InitRegistry /\ [][NextRestored]_vars

\* ---------------------------------------------------------------------
\* C38: a peer created by Load is offered for catchup
\* ---------------------------------------------------------------------
\* The record of p was created by Load and no connection was seen since.
LoadCreated(m, p) == p \in DOMAIN m /\ ~m[p].IsConnected

\* The step is an answer to GetPeersForCatchup.
SelectionStep == server' # server /\ server'.resp.rpc = "GetPeersForCatchup"

\* The step is a Load that creates the record of p.
LoadCreates(p) ==
    /\ p \notin DOMAIN peers
    /\ p \in DOMAIN peers'
    /\ lastErr'.op = "Load"
    /\ peers' = PeersAfterLoad(peers, file)

C38_Step ==
    /\ \A p \in DOMAIN peers' :
          LoadCreates(p) =>
              /\ peers'[p].IsHealthy
              /\ ~peers'[p].IsBanned
              /\ ~peers'[p].IsConnected
              /\ peers'[p].DataHubURL = file.peers[p].DataHubURL
    /\ SelectionStep =>
          \A p \in DOMAIN peers :
              (LoadCreated(peers, p) /\ peers[p].DataHubURL # "") =>
                  \E i \in 1..Len(server'.resp.peers) :
                      server'.resp.peers[i].Id = IDString(p)

\* C38: a record that Load creates is healthy, not banned and not
\* connected, and when its snapshot entry carries a DataHub URL the peer is
\* in the answer to GetPeersForCatchup although no connection event and no
\* health check has happened for it.
C38_LoadCreatedPeerSelected == [][C38_Step]_vars

\* After a restart "pA" exists only through Load, is not connected, and is
\* the one peer of the last answer to GetPeersForCatchup; "pB", restored
\* without a URL, is not offered.
C38_Witness ==
    /\ lastErr = [op |-> "Load", err |-> "nil"]
    /\ LoadCreated(peers, "pA")
    /\ LoadCreated(peers, "pB")
    /\ server.resp.rpc = "GetPeersForCatchup"
    /\ Len(server.resp.peers) = 1
    /\ server.resp.peers[1].Id = IDString("pA")

\* ---------------------------------------------------------------------
\* C39: counters of a peer without attempt, URL and height are not saved
\* ---------------------------------------------------------------------
\* Neither an attempt nor a DataHub URL nor a height is recorded for the
\* peer.
NothingToCache(info) ==
    info.CatchupAttempts = 0 /\ info.DataHubURL = "" /\ info.Height = 0

\* The step is a Save of the registry that returned nil.
SaveWritesStep ==
    /\ lastErr' = [op |-> "Save", err |-> "nil"]
    /\ peers' = peers
    /\ file' \in PeerRegistryCaches(peers)
    /\ file' # file \/ lastErr' # lastErr

\* The step is a Load into a registry without any record.
LoadIntoFreshStep ==
    /\ peers = EmptyMap
    /\ lastErr = NoCall
    /\ lastErr' = [op |-> "Load", err |-> "nil"]

C39_Step ==
    /\ SaveWritesStep =>
          \A p \in DOMAIN peers :
              NothingToCache(peers[p]) => CoerceToValidUTF8(p) \notin DOMAIN file'.peers
    /\ LoadIntoFreshStep => DOMAIN peers' = DOMAIN file.peers

\* C39: Save leaves out every peer without attempt, DataHub URL and
\* height, whatever its successes, failures and malicious count, and a Load
\* into a fresh registry creates records for the entries of the file only:
\* the counters of such a peer do not outlive the process.
C39_CountersWithoutAttemptNotSaved == [][C39_Step]_vars

\* The registry holds "pB" with a malicious incident and no attempt; the
\* snapshot that Save wrote of this registry holds "pA" and not "pB".
C39_Witness ==
    /\ lastErr = [op |-> "Save", err |-> "nil"]
    /\ file \in PeerRegistryCaches(peers)
    /\ "pB" \in DOMAIN peers
    /\ peers["pB"].CatchupMaliciousCount = 1
    /\ NothingToCache(peers["pB"])
    /\ DOMAIN file.peers = {"pA"}

\* In the new process Load has restored "pA" alone.
RestoredWithoutPeer ==
    /\ lastErr = [op |-> "Load", err |-> "nil"]
    /\ DOMAIN peers = {"pA"}
    /\ LoadCreated(peers, "pA")
    /\ DOMAIN file.peers = {"pA"}

\* ---------------------------------------------------------------------
\* LoadPeerRegistryCache step by step, next to readers, Saves and mutators
\* ---------------------------------------------------------------------

\* A snapshot entry with three attempts, the given URL and height.
LoadedEntry(url, height) ==
    [CachedMetrics(3, 50) EXCEPT !.CatchupSuccesses = 2,
                                 !.DataHubURL = url,
                                 !.Height = height,
                                 !.BlockHash = IF height > 0 THEN "hash-1" ELSE ""]

\* The files a Load finds: none, a snapshot of an earlier run with two
\* peers, one of another version.
LoadedFiles ==
    {NoFile,
     [kind |-> "json", version |-> "1.0",
      peers |-> ("pA" :> LoadedEntry("http://a", 5) @@
                 "pB" :> LoadedEntry("http://b", 0))],
     [kind |-> "json", version |-> "0.9",
      peers |-> ("pA" :> LoadedEntry("http://a", 5))]}

\* The document Load unmarshalled, as a file.
LoadedDocument(cache) ==
    [kind |-> "json", version |-> PeerRegistryCacheVersion, peers |-> cache]

\* os.Stat, os.Open, io.ReadAll, json.Unmarshal and the version check: no
\* lock is held; on an error, and without a file, Load returns.
LoadRead ==
    /\ loader.pc = "idle"
    /\ IF file.kind = "json" /\ LoadError(file) = "nil"
       THEN /\ loader' = [loader EXCEPT !.pc = "read", !.cache = file.peers]
            /\ UNCHANGED lastErr
       ELSE /\ loader' = [loader EXCEPT !.pc = "done", !.err = LoadError(file)]
            /\ lastErr' = [op |-> "Load", err |-> LoadError(file)]
    /\ UNCHANGED <<peers, file, now, cacheVars, valVars, saveVars, server, reads, wait>>

\* pr.mu.Lock()
LoadLock ==
    /\ loader.pc = "read"
    /\ WriteLockFree
    /\ loader' = [loader EXCEPT !.pc = "merging", !.wlock = TRUE,
                                !.todo = DOMAIN loader.cache, !.base = peers]
    /\ UNCHANGED <<regVars, now, cacheVars, valVars, saveVars, server, reads, wait>>

\* The record of id after the first half of a loop iteration: created if
\* absent, its nine catchup fields assigned, URL and height not looked at.
MetricsRestored(m, id, metrics) ==
    LET info == IF id \in DOMAIN m THEN m[id] ELSE CreatedPeerInfo(metrics)
    IN  [RestoredPeerInfo(m, id, metrics) EXCEPT !.DataHubURL = info.DataHubURL,
                                                 !.Height = info.Height,
                                                 !.BlockHash = info.BlockHash]

\* One iteration of `for idStr, metrics := range cache.Peers`, first half:
\* the lookup, the creation, the assignments of the catchup fields.
LoadRestoreMetrics(id) ==
    /\ loader.pc = "merging"
    /\ loader.half = ""
    /\ id \in loader.todo
    /\ peers' = MapSet(peers, id, MetricsRestored(peers, id, loader.cache[id]))
    /\ loader' = [loader EXCEPT !.todo = @ \ {id}, !.half = id]
    /\ UNCHANGED <<file, lastErr, now, cacheVars, valVars, saveVars, server, reads, wait>>

\* Second half of the iteration: URL, height and block hash if not set.
LoadRestoreURLHeight ==
    /\ loader.pc = "merging"
    /\ loader.half # ""
    /\ peers' = [peers EXCEPT ![loader.half] =
                    RestoredPeerInfo(peers, loader.half, loader.cache[loader.half])]
    /\ loader' = [loader EXCEPT !.half = ""]
    /\ UNCHANGED <<file, lastErr, now, cacheVars, valVars, saveVars, server, reads, wait>>

\* return nil: the deferred pr.mu.Unlock() runs.
LoadUnlock ==
    /\ loader.pc = "merging"
    /\ loader.todo = {}
    /\ loader.half = ""
    /\ loader' = [loader EXCEPT !.pc = "done", !.wlock = FALSE, !.err = "nil"]
    /\ lastErr' = [op |-> "Load", err |-> "nil"]
    /\ UNCHANGED <<peers, file, now, cacheVars, valVars, saveVars, server, reads, wait>>

\* pr.GetPeer(id): a copy of the record, under the shared lock.
GetPeer(p) ==
    /\ RLockFree
    /\ reads' = [op |-> "GetPeer", peer |-> p, found |-> p \in DOMAIN peers,
                 peers |-> IF p \in DOMAIN peers THEN (p :> peers[p]) ELSE EmptyMap]
    /\ UNCHANGED <<regVars, now, cacheVars, valVars, saveVars, server, loader, wait>>

\* pr.GetAllPeers(): copies of all records, under the shared lock.
GetAllPeers ==
    /\ RLockFree
    /\ reads' = [op |-> "GetAllPeers", peer |-> "", found |-> TRUE, peers |-> peers]
    /\ UNCHANGED <<regVars, now, cacheVars, valVars, saveVars, server, loader, wait>>

\* A node with the connected peer "pA" loads the snapshot of an earlier
\* run while a Save, readers and a recorder run.
InitLoadSteps ==
    /\ CacheNew
    /\ now = 1
    /\ peers = ("pA" :> NewPeerInfo)
    /\ file \in LoadedFiles
    /\ lastErr = NoCall
    /\ savers = (1 :> IdleSaver)
    /\ tempFiles = EmptyMap
    /\ server = NoServer
    /\ loader = NoLoader
    /\ reads = NoRead
    /\ wait = NoWait
    /\ ValidationIdle

NextLoadSteps ==
    \/ LoadRead
    \/ LoadLock
    \/ \E id \in SavedPeers : LoadRestoreMetrics(id)
    \/ LoadRestoreURLHeight
    \/ LoadUnlock
    \/ \E p \in SavedPeers : GetPeer(p)
    \/ GetAllPeers
    \/ RecordCatchupAttempt("pA")
    \/ SaveLock(1)
    \/ \E p \in SavedPeers : SaveCopy(1, p)
    \/ SaveTempFile(1, 1)
    \/ \E outcome \in WriteResults : SaveOpen(1, outcome)
    \/ SaveWrite(1)
    \/ SaveRename(1, "nil")

SpecLoadSteps == InitLoadSteps /\ [][NextLoadSteps]_vars

\* The merge is under way: the loop has changed the registry and has not
\* finished.
MergedBase == peers = loader.base

MergedWhole == peers = PeersAfterLoad(loader.base, LoadedDocument(loader.cache))

PartlyMerged == loader.pc = "merging" /\ ~MergedBase /\ ~MergedWhole

\* A step in which a reader takes the lock or reads the registry: GetPeer
\* and GetAllPeers return, Save locks, Save copies a record.
ReaderStep ==
    \/ reads' # reads
    \/ \E s \in DOMAIN savers :
          \/ ~savers[s].rlock /\ savers'[s].rlock
          \/ savers'[s].todo # savers[s].todo

\* What a reader returned is what the registry held.
ReadOf(m) ==
    \/ reads'.op = "GetAllPeers" /\ reads'.peers = m
    \/ /\ reads'.op = "GetPeer"
       /\ reads'.found = (reads'.peer \in DOMAIN m)
       /\ reads'.found => reads'.peers = (reads'.peer :> m[reads'.peer])

C40_Step ==
    /\ ReaderStep => ~loader.wlock /\ ~PartlyMerged
    /\ (reads' # reads /\ loader.pc = "merging") =>
          ReadOf(loader.base) \/ ReadOf(PeersAfterLoad(loader.base,
                                                       LoadedDocument(loader.cache)))
    /\ (loader.wlock /\ ~loader'.wlock) =>
          /\ MergedWhole
          /\ \A id \in DOMAIN loader.cache :
                peers[id] = RestoredPeerInfo(loader.base, id, loader.cache[id])

\* C40: from pr.mu.Lock() to the deferred Unlock, Load holds the lock
\* alone; no GetPeer, GetAllPeers or Save takes the lock or reads a record
\* while the registry is between its state before the merge and its state
\* with every entry of the snapshot merged, and at the Unlock every entry
\* is merged in full.
C40_LoadMergesUnderOneLock ==
    /\ [](PartlyMerged => (loader.wlock /\ \A s \in DOMAIN savers : ~HoldsRLock(savers[s])))
    /\ [][C40_Step]_vars

\* The loop has restored the counters of the connected peer "pA", whose
\* URL and height are not restored yet, and has not visited "pB"; the
\* reader's last answer is the registry before the merge.
C40_Witness ==
    /\ loader.pc = "merging"
    /\ loader.half = "pA"
    /\ peers["pA"].CatchupAttempts = 3
    /\ peers["pA"].DataHubURL = ""
    /\ peers["pA"].Height = 0
    /\ loader.cache["pA"].Height = 5
    /\ "pB" \in loader.todo
    /\ "pB" \notin DOMAIN peers
    /\ reads.op = "GetAllPeers"
    /\ reads.peers = loader.base

\* A reader sees every entry merged after the Load returned.
ReadAfterLoad ==
    /\ loader.pc = "done"
    /\ loader.err = "nil"
    /\ reads.op = "GetPeer"
    /\ reads.peer = "pB"
    /\ reads.found
    /\ reads.peers["pB"].CatchupAttempts = 3

=============================================================================
